---- MODULE Spec2Model ----
(***************************************************************************)
(* Environment lifecycle of the supabase CLI: `start`, `stop` and          *)
(* `db commit`, each a UI loop plus one worker goroutine, acting on the    *)
(* container runtime, the databases inside the db container and the        *)
(* .supabase directory.                                                    *)
(***************************************************************************)
EXTENDS Integers, Sequences, FiniteSets, TLC

(***************************************************************************)
(* Bounds of the model.                                                    *)
(***************************************************************************)
\* Events from outside per behaviour: runtime calls that fail for a reason of
\* the environment, and Ctrl-C key presses.
MaxEvents == 1
\* Seconds the wall clock may advance during a behaviour.
MaxClock == 1

(***************************************************************************)
(* Names.                                                                  *)
(***************************************************************************)
ShadowDbName == "supabase_shadow"

DbId == "db"
KongId == "kong"
GotrueId == "gotrue"
InbucketId == "inbucket"
RealtimeId == "realtime"
RestId == "rest"
StorageId == "storage"
DifferId == "differ"
PgmetaId == "pgmeta"
StudioId == "studio"

\* The service containers with auth started ahead of the gateway.
ServicesAuthFirst ==
  <<GotrueId, KongId, InbucketId, RealtimeId, RestId, StorageId, DifferId,
    PgmetaId, StudioId>>

\* The containers run() creates after the database, in the order of the code.
Services ==
  <<KongId, GotrueId, InbucketId, RealtimeId, RestId, StorageId, DifferId,
    PgmetaId, StudioId>>

\* The image references run() ensures, in the order of the code.
Images ==
  <<"DbImage", "KongImage", "GotrueImage", "InbucketImage", "RealtimeImage",
    "PostgrestImage", "StorageImage", "DifferImage", "PgmetaImage",
    "StudioImage", "DenoRelayImage">>

Range(s) == {s[i] : i \in 1..Len(s)}

Put(f, k, v) == [x \in DOMAIN f \cup {k} |-> IF x = k THEN v ELSE f[x]]
Del(f, k) == [x \in DOMAIN f \ {k} |-> f[x]]
Empty == [x \in {} |-> x]

(***************************************************************************)
(* File names are sequences of characters, ordered bytewise as os.ReadDir  *)
(* orders directory entries.                                               *)
(***************************************************************************)
Digits == {"0", "1", "2", "3", "4", "5", "6", "7", "8", "9"}

Ascii(c) ==
  CASE c = "." -> 46
    [] c = "0" -> 48 [] c = "1" -> 49 [] c = "2" -> 50 [] c = "3" -> 51
    [] c = "4" -> 52 [] c = "5" -> 53 [] c = "6" -> 54 [] c = "7" -> 55
    [] c = "8" -> 56 [] c = "9" -> 57
    [] c = "_" -> 95
    [] c = "a" -> 97 [] c = "b" -> 98 [] c = "i" -> 105 [] c = "l" -> 108
    [] c = "n" -> 110 [] c = "q" -> 113 [] c = "s" -> 115 [] c = "t" -> 116
    [] c = "u" -> 117 [] c = "x" -> 120

DigitVal(c) == Ascii(c) - 48

RECURSIVE StrLess(_, _)
StrLess(a, b) ==
  IF a = <<>> THEN b # <<>>
  ELSE IF b = <<>> THEN FALSE
  ELSE IF Head(a) = Head(b) THEN StrLess(Tail(a), Tail(b))
  ELSE Ascii(Head(a)) < Ascii(Head(b))

\* os.ReadDir: the entries of a directory sorted by filename.
RECURSIVE ReadDir(_)
ReadDir(files) ==
  IF files = {} THEN <<>>
  ELSE LET least == CHOOSE f \in files : \A g \in files \ {f} : StrLess(f, g)
       IN <<least>> \o ReadDir(files \ {least})

InitSqlSuffix == <<"_", "i", "n", "i", "t", ".", "s", "q", "l">>
SqlSuffix == <<".", "s", "q", "l">>

\* regexp `([0-9]{14})_init\.sql` matching at offset p of name (1-based).
MatchesAt(name, p) ==
  /\ p + 22 <= Len(name)
  /\ \A k \in 0..13 : name[p + k] \in Digits
  /\ SubSeq(name, p + 14, p + 22) = InitSqlSuffix

\* FindStringSubmatch: the capture group of the leftmost match, <<>> when none.
FindTimestamp(name) ==
  LET hits == {p \in 1..Len(name) : MatchesAt(name, p)}
  IN IF hits = {} THEN <<>>
     ELSE LET p == CHOOSE q \in hits : \A r \in hits : q <= r
          IN SubSeq(name, p, p + 13)

\* strconv.ParseUint of 14 digits, kept as two 7-digit halves <<high, low>>.
RECURSIVE DecValue(_)
DecValue(ds) ==
  IF ds = <<>> THEN 0
  ELSE 10 * DecValue(SubSeq(ds, 1, Len(ds) - 1)) + DigitVal(ds[Len(ds)])

ParseUint(ds) == <<DecValue(SubSeq(ds, 1, 7)), DecValue(SubSeq(ds, 8, 14))>>

\* 20211209000000
LegacyThresholdHigh == 2021120
LegacyThresholdLow == 9000000

BelowThreshold(ts) ==
  \/ ts[1] < LegacyThresholdHigh
  \/ ts[1] = LegacyThresholdHigh /\ ts[2] < LegacyThresholdLow

\* The `continue` of the replay loop of start: entry i (0-based) is skipped.
StartSkips(i, name) ==
  /\ i = 0
  /\ FindTimestamp(name) # <<>>
  /\ BelowThreshold(ParseUint(FindTimestamp(name)))

\* A replay loop of commit that skips no file.
CommitSkipsNothing(i, name) == FALSE

\* The `continue` of the replay loop of commit.
CommitSkips(i, name) ==
  /\ i = 0
  /\ FindTimestamp(name) # <<>>
  /\ BelowThreshold(ParseUint(FindTimestamp(name)))

(***************************************************************************)
(* Migration file names used by the model.                                 *)
(***************************************************************************)
Ts20211208 == <<"2", "0", "2", "1", "1", "2", "0", "8", "0", "0", "0", "0", "0", "0">>
Ts20211209p1 == <<"2", "0", "2", "1", "1", "2", "0", "9", "0", "0", "0", "0", "0", "1">>
Ts20211210 == <<"2", "0", "2", "1", "1", "2", "1", "0", "0", "0", "0", "0", "0", "0">>
Ts20220101 == <<"2", "0", "2", "2", "0", "1", "0", "1", "0", "0", "0", "0", "0", "0">>

\* 20211208000000_init.sql: the legacy first migration.
MigLegacyInit == Ts20211208 \o InitSqlSuffix
\* 20211209000001_a.sql
MigA == Ts20211209p1 \o <<"_", "a">> \o SqlSuffix
\* 20211210000000_b.sql
MigB == Ts20211210 \o <<"_", "b">> \o SqlSuffix
\* 20220101000000_20211208000000_init.sql: committed under the name
\* "20211208000000_init".
MigSlugInit == Ts20220101 \o <<"_">> \o Ts20211208 \o InitSqlSuffix

(***************************************************************************)
(* State.                                                                  *)
(***************************************************************************)
VARIABLES
  \* Container runtime: the project network, the project's containers, the
  \* local images, and the databases inside the db container.
  net, containers, images, dbs,
  \* .supabase: branches directory, pointer file, branch directories (with the
  \* state of their dump.sql), migrations directory, optional SQL files.
  branchesDir, ptr, dirs, migDir, migs, hasExt, hasSeed,
  \* The wall clock, in seconds after 2022-01-01 00:00:00 UTC.
  now,
  \* The running command: its Run function and UI loop.
  cmd, arg, mainPc, result, ui, m,
  \* The cancellation context of the process.
  ctxDone,
  \* The worker goroutine and the error channel.
  wpc, widx, wtodo, wmigs, wdiff, currBranch, inflight, werr, errCh,
  \* Bookkeeping: events from outside so far (injected failures and key
  \* presses); remote pulls issued and restore outcomes of the current run;
  \* snapshot taken when the command was launched; the lines of psql output
  \* delivered to Update since the last clearing message.
  events, pulls, restored, snap, logged

dockerVars == <<net, containers, images, dbs>>
fsVars == <<branchesDir, ptr, dirs, migDir, migs, hasExt, hasSeed>>
mainVars == <<cmd, arg, mainPc, result, ui>>
workVars ==
  <<wpc, widx, wtodo, wmigs, wdiff, currBranch, inflight, werr, errCh>>
histVars == <<events, pulls, restored, snap, logged>>
vars ==
  <<dockerVars, fsVars, now, mainVars, m, ctxDone, workVars, histVars>>

NoFile == "<absent>"
NoErr == "nil"
NoValue == "<empty>"

AllContainers == {DbId} \cup Range(Services)

\* A database: the branch it was created for and what was replayed into it.
Db(origin, log) == [origin |-> origin, log |-> log]
Item(kind) == [k |-> kind, n |-> <<>>]
MigItem(name) == [k |-> "migration", n |-> name]
Applied(db, item) == Db(db.origin, Append(db.log, item))

\* The databases of a freshly initialised db container.
FreshCluster ==
  [d \in {"postgres", "template0", "template1"} |-> Db(d, <<>>)]

\* The observable environment: everything outside the process.
Env ==
  [net |-> net, containers |-> containers, images |-> images, dbs |-> dbs,
   branchesDir |-> branchesDir, ptr |-> ptr, dirs |-> dirs,
   migDir |-> migDir, migs |-> migs]

\* What is remembered of the moment a command was launched.
Snapshot == [env |-> Env, events |-> events]

(***************************************************************************)
(* The UI state machine (model.Update of start and of commit, which are    *)
(* the same but for the Ctrl-C handler's calls).                           *)
(***************************************************************************)
NoProgress == -1
LogWindow == 5

KeyMsg(key) == [type |-> "key", text |-> key, num |-> 0]
WindowSizeMsg(w) == [type |-> "resize", text |-> "", num |-> w]
TickMsg == [type |-> "tick", text |-> "", num |-> 0]
FrameMsg == [type |-> "frame", text |-> "", num |-> 0]
StatusMsg(t) == [type |-> "status", text |-> t, num |-> 0]
ProgressMsg(pct) == [type |-> "progress", text |-> "", num |-> pct]
PsqlMsg(line) == [type |-> "psql", text |-> line, num |-> 0]
PsqlNil == [type |-> "psqlnil", text |-> "", num |-> 0]
QuitMsg == [type |-> "quit", text |-> "", num |-> 0]

InitModel ==
  [spinner |-> 0, status |-> "", progress |-> NoProgress,
   psqlOutputs |-> <<>>, width |-> 0]

\* Update with the newest line dropped when the window is full.
UpdateDropsNewest(mm, msg) ==
  CASE msg.type = "resize" -> [mm EXCEPT !.width = msg.num]
    [] msg.type = "tick" -> [mm EXCEPT !.spinner = 1 - mm.spinner]
    [] msg.type = "status" -> [mm EXCEPT !.status = msg.text]
    [] msg.type = "progress" -> [mm EXCEPT !.progress = msg.num]
    [] msg.type = "psqlnil" -> [mm EXCEPT !.psqlOutputs = <<>>]
    [] msg.type = "psql" ->
         LET out == Append(mm.psqlOutputs, msg.text)
         IN [mm EXCEPT !.psqlOutputs =
               IF Len(out) > LogWindow THEN mm.psqlOutputs ELSE out]
    [] OTHER -> mm

\* Update with a status message that also empties the log window.
UpdateStatusClearsLog(mm, msg) ==
  CASE msg.type = "key" -> mm
    [] msg.type = "resize" -> [mm EXCEPT !.width = msg.num]
    [] msg.type = "tick" -> [mm EXCEPT !.spinner = 1 - mm.spinner]
    [] msg.type = "frame" -> mm
    [] msg.type = "status" ->
         [mm EXCEPT !.status = msg.text, !.psqlOutputs = <<>>]
    [] msg.type = "progress" -> [mm EXCEPT !.progress = msg.num]
    [] msg.type = "psqlnil" -> [mm EXCEPT !.psqlOutputs = <<>>]
    [] msg.type = "psql" ->
         LET out == Append(mm.psqlOutputs, msg.text)
         IN [mm EXCEPT !.psqlOutputs =
               IF Len(out) > LogWindow THEN Tail(out) ELSE out]
    [] OTHER -> mm

\* The model returned by Update.
Update(mm, msg) ==
  CASE msg.type = "key" -> mm
    [] msg.type = "resize" -> [mm EXCEPT !.width = msg.num]
    [] msg.type = "tick" -> [mm EXCEPT !.spinner = 1 - mm.spinner]
    [] msg.type = "frame" -> mm
    [] msg.type = "status" -> [mm EXCEPT !.status = msg.text]
    [] msg.type = "progress" -> [mm EXCEPT !.progress = msg.num]
    [] msg.type = "psqlnil" -> [mm EXCEPT !.psqlOutputs = <<>>]
    [] msg.type = "psql" ->
         LET out == Append(mm.psqlOutputs, msg.text)
         IN [mm EXCEPT !.psqlOutputs =
               IF Len(out) > LogWindow THEN Tail(out) ELSE out]
    [] OTHER -> mm

\* p.Send from the worker: the UI loop takes the message when it is waiting;
\* once the loop has ended nobody reads it.
CanSend == ui \in {"waiting", "ended"}
Sent(msg) == m' = IF ui = "waiting" THEN Update(m, msg) ELSE m

(***************************************************************************)
(* Initial states: a stopped environment (no container, no network) over   *)
(* one of several .supabase directories.                                   *)
(***************************************************************************)
\* utils.IsBranchNameReserved.
IsBranchNameReserved(branch) ==
  branch \in {"_current_branch", "main", "supabase_shadow", "postgres",
              "template0", "template1"}

BranchOrder == <<"a", "b", "c", "main", "postgres", "supabase_shadow">>

Fs(bd, p, d, mg, ext, seed) ==
  [branchesDir |-> bd, ptr |-> p, dirs |-> d, migs |-> mg, hasExt |-> ext,
   hasSeed |-> seed]

Only(k, v) == [x \in {k} |-> v]

InitialFs ==
  { \* a project that was never started
    Fs(FALSE, NoFile, Empty, {}, FALSE, FALSE),
    \* the same with migrations, extensions.sql and seed.sql
    Fs(FALSE, NoFile, Empty, {MigLegacyInit, MigA, MigB}, TRUE, TRUE),
    \* branches a and c dumped, b with a dump that fails to replay, b current
    Fs(TRUE, "b", Put(Put(Only("a", "valid"), "b", "corrupt"), "c", "valid"),
       {MigSlugInit}, FALSE, FALSE),
    \* branch b never dumped and current, main dumped
    Fs(TRUE, "b", Put(Put(Only("a", "valid"), "b", "missing"), "main", "valid"),
       {}, FALSE, FALSE),
    \* branch a current, b corrupt
    Fs(TRUE, "a", Put(Put(Only("a", "valid"), "b", "corrupt"), "main", "valid"),
       {}, FALSE, FALSE),
    \* main itself has a dump that fails to replay
    Fs(TRUE, "main", Only("main", "corrupt"), {MigA}, FALSE, FALSE),
    \* a directory bearing a reserved name
    Fs(TRUE, "main", Put(Only("main", "valid"), "postgres", "valid"),
       {}, FALSE, FALSE),
    \* a directory bearing the name of the shadow database
    Fs(TRUE, "main", Put(Only("main", "valid"), "supabase_shadow", "valid"),
       {}, FALSE, FALSE) }

\* No process: the state between two commands.
Idle ==
  /\ cmd = "none" /\ arg = <<>> /\ mainPc = "idle" /\ result = NoValue
  /\ ui = "off" /\ m = InitModel /\ ctxDone = FALSE
  /\ wpc = "off" /\ widx = 0 /\ wtodo = <<>> /\ wmigs = <<>> /\ wdiff = <<>>
  /\ currBranch = NoFile /\ inflight = FALSE /\ werr = NoErr
  /\ errCh = NoValue
  /\ restored = Empty /\ snap = <<>>
  /\ pulls = [i \in Range(Images) |-> 0]
  /\ logged = <<>>

Init ==
  /\ net = FALSE /\ containers = {} /\ dbs = Empty
  /\ images = {}
  /\ \E f \in InitialFs :
       /\ branchesDir = f.branchesDir /\ ptr = f.ptr /\ dirs = f.dirs
       /\ migDir = (f.migs # {})
       /\ migs = [n \in f.migs |-> <<>>]
       /\ hasExt = f.hasExt /\ hasSeed = f.hasSeed
  /\ now = 0
  /\ Idle
  /\ events = 0

(***************************************************************************)
(* Pieces shared by the actions.                                           *)
(***************************************************************************)
\* A new command may be typed once the previous process has exited.
ShellReady == mainPc = "idle"

\* The worker goroutine runs as long as its process does.
Working(c) == cmd = c /\ mainPc \in {"ui", "post"}

\* The events the behaviour may still take.
EventsLeft == MaxEvents - events

\* A runtime call errors: because the environment fails it (bounded), or
\* because the context was cancelled while it was in flight.
CallErrors ==
  \/ ctxDone /\ UNCHANGED events
  \/ ~ctxDone /\ EventsLeft > 0 /\ events' = events + 1

\* Containers removed: the databases live in the db container's volume.
DbsWithout(removed) == IF DbId \in removed THEN Empty ELSE dbs

\* utils.DockerRemoveAll: force-remove every container of the project,
\* concurrently, errors ignored; `kept` are the removals that failed.
DockerRemoveAll(kept) ==
  /\ containers' = kept
  /\ dbs' = DbsWithout(containers \ kept)

\* The removals that may fail within the failure budget.
MayKeep == {k \in SUBSET containers : Cardinality(k) <= EventsLeft}

\* NetworkRemove left out of the cleanup.
NetworkRemoveSkipped(attached) == net

\* Docker.NetworkRemove: fails while a container is attached.
NetworkRemove(attached) == IF attached = {} THEN FALSE ELSE net

\* The process exits after Run returned, once the runtime has settled the
\* request that was in flight; nothing of the process is left.
ProcessExit ==
  /\ mainPc = "returned" /\ ~inflight
  /\ cmd' = "none" /\ arg' = <<>> /\ mainPc' = "idle" /\ result' = NoValue
  /\ ui' = "off" /\ m' = InitModel /\ ctxDone' = FALSE
  /\ wpc' = "off" /\ widx' = 0 /\ wtodo' = <<>> /\ wmigs' = <<>>
  /\ wdiff' = <<>> /\ currBranch' = NoFile /\ inflight' = FALSE
  /\ werr' = NoErr /\ errCh' = NoValue
  /\ restored' = Empty /\ snap' = <<>>
  /\ pulls' = [i \in Range(Images) |-> 0]
  /\ logged' = <<>>
  /\ UNCHANGED <<dockerVars, fsVars, now, events>>

(***************************************************************************)
(* start: Run.                                                             *)
(***************************************************************************)
\* The state of a process that has just been launched.
Launched(c, a) ==
  /\ cmd' = c /\ arg' = a /\ snap' = Snapshot
  /\ m' = InitModel /\ ctxDone' = FALSE
  /\ widx' = 0 /\ wtodo' = <<>> /\ wmigs' = <<>> /\ wdiff' = <<>>
  /\ currBranch' = NoFile
  /\ inflight' = FALSE /\ werr' = NoErr /\ errCh' = NoValue
  /\ restored' = Empty /\ logged' = <<>>

\* Run of start with the worker goroutine launched ahead of the sanity
\* checks.
StartRunChecksLate ==
  /\ ShellReady
  /\ Launched("start", <<>>)
  /\ wpc' = "net"
  /\ IF DbId \in containers
     THEN /\ mainPc' = "returned" /\ result' = "start is already running"
          /\ ui' = "off"
     ELSE /\ mainPc' = "ui" /\ result' = NoValue
          /\ ui' = "waiting"
  /\ UNCHANGED <<dockerVars, fsVars, now, events, pulls>>

\* Run of start: the sanity checks, then the UI loop and the worker.
StartRun ==
  /\ ShellReady
  /\ Launched("start", <<>>)
  /\ IF DbId \in containers
     THEN /\ mainPc' = "returned" /\ result' = "start is already running"
          /\ ui' = "off" /\ wpc' = "off"
     ELSE /\ mainPc' = "ui" /\ result' = NoValue
          /\ ui' = "waiting" /\ wpc' = "net"
  /\ UNCHANGED <<dockerVars, fsVars, now, events, pulls>>

\* A goroutine that sends Quit without putting run's error on errCh.
StartReturnNoDeposit(err) == wpc' = "quit" /\ werr' = err /\ UNCHANGED errCh

\* run returns err: the goroutine puts it on errCh (buffered, never blocks).
StartReturn(err) == wpc' = "quit" /\ werr' = err /\ errCh' = err

\* The key handler of model.Update, first half: cancelCtx().
KeyCtrlC ==
  /\ mainPc = "ui" /\ ui = "waiting"
  /\ EventsLeft > 0
  /\ events' = events + 1
  /\ ctxDone' = TRUE
  /\ ui' = "handling"
  /\ m' = Update(m, KeyMsg("ctrl+c"))
  /\ UNCHANGED <<dockerVars, fsVars, now, cmd, arg, mainPc, result, workVars,
                 pulls, restored, snap, logged>>

\* The key handler of start, second half: DockerRemoveAll(), then tea.Quit
\* ends the UI loop.
StartCtrlCCleanup ==
  /\ cmd = "start" /\ mainPc = "ui" /\ ui = "handling"
  /\ \E kept \in MayKeep :
       /\ DockerRemoveAll(kept)
       /\ events' = events + Cardinality(kept)
  /\ ui' = "ended" /\ mainPc' = "post"
  /\ UNCHANGED <<net, images, fsVars, now, cmd, arg, result, m, ctxDone,
                 workVars, pulls, restored, snap, logged>>

\* Run receiving from errCh before it looks at the context.
StartReturnAbortedWaits ==
  /\ cmd = "start" /\ mainPc = "post" /\ ctxDone
  /\ errCh # NoValue
  /\ mainPc' = "returned" /\ result' = "Aborted"
  /\ UNCHANGED <<dockerVars, fsVars, now, cmd, arg, ui, m, ctxDone, workVars,
                 histVars>>

\* The context replaced by a fresh one when the cancelled run returns.
StartReturnAbortedResets ==
  /\ cmd = "start" /\ mainPc = "post" /\ ctxDone
  /\ mainPc' = "returned" /\ result' = "Aborted"
  /\ ctxDone' = FALSE
  /\ UNCHANGED <<dockerVars, fsVars, now, cmd, arg, ui, m, workVars,
                 histVars>>

\* The cancellation reported as the context's error, like a failed step.
StartReturnAbortedAsFailure ==
  /\ cmd = "start" /\ mainPc = "post" /\ ctxDone
  /\ mainPc' = "returned" /\ result' = "context canceled"
  /\ UNCHANGED <<dockerVars, fsVars, now, cmd, arg, ui, m, ctxDone, workVars,
                 histVars>>

\* Run after p.Start() returned: the context was cancelled.
StartReturnAborted ==
  /\ cmd = "start" /\ mainPc = "post" /\ ctxDone
  /\ mainPc' = "returned" /\ result' = "Aborted"
  /\ UNCHANGED <<dockerVars, fsVars, now, cmd, arg, ui, m, ctxDone, workVars,
                 histVars>>

\* Run after p.Start() returned: receive the worker's error; on error remove
\* the containers and the network, the result of either removal ignored.
StartReturnResult ==
  /\ cmd = "start" /\ mainPc = "post" /\ ~ctxDone
  /\ errCh # NoValue
  /\ mainPc' = "returned"
  /\ errCh' = NoValue
  /\ IF errCh # NoErr
     THEN /\ result' = errCh
          /\ \E kept \in MayKeep :
               /\ DockerRemoveAll(kept)
               /\ \/ /\ net' = NetworkRemove(kept)
                     /\ events' = events + Cardinality(kept)
                  \/ /\ net /\ kept = {} /\ EventsLeft > 0
                     /\ net' = net
                     /\ events' = events + 1
     ELSE /\ result' = "Started"
          /\ UNCHANGED <<net, containers, dbs, events>>
  /\ UNCHANGED <<images, fsVars, now, cmd, arg, ui, m, ctxDone, wpc, widx,
                 wtodo, wmigs, wdiff, currBranch, inflight, werr,
                 pulls, restored, snap, logged>>

\* The goroutine's last statement: p.Send(tea.Quit()).
WorkerQuit ==
  /\ cmd \in {"start", "commit"} /\ mainPc \in {"ui", "post"}
  /\ wpc = "quit" /\ CanSend
  /\ wpc' = "exit"
  /\ IF ui = "waiting"
     THEN ui' = "ended" /\ mainPc' = "post"
     ELSE UNCHANGED <<ui, mainPc>>
  /\ UNCHANGED <<dockerVars, fsVars, now, cmd, arg, result, m, ctxDone, widx,
                 wtodo, wmigs, wdiff, currBranch, inflight, werr, errCh,
                 histVars>>

(***************************************************************************)
(* start: run, the worker.                                                 *)
(***************************************************************************)
\* What a worker step leaves alone unless it says otherwise.
WorkerFrame ==
  UNCHANGED <<cmd, arg, mainPc, result, ui, ctxDone, snap, logged>>

\* What a worker step of start leaves alone unless it says otherwise.
StartFrame == WorkerFrame /\ UNCHANGED <<now, wdiff>>

\* Docker.NetworkCreate, its result ignored.
StartNetworkCreate ==
  /\ Working("start") /\ wpc = "net"
  /\ wpc' = "ptr"
  /\ IF ctxDone
     THEN UNCHANGED <<net, events>>
     ELSE \/ net' = TRUE /\ UNCHANGED events
          \/ ~net /\ CallErrors /\ UNCHANGED net
  /\ StartFrame
  /\ UNCHANGED <<containers, images, dbs, fsVars, m, widx, wtodo, wmigs,
                 currBranch, inflight, werr, errCh, pulls, restored>>

\* Ensure `_current_branch` exists, then read the current branch.
StartEnsureCurrentBranch ==
  /\ Working("start") /\ wpc = "ptr"
  /\ IF ptr # NoFile
     THEN UNCHANGED <<branchesDir, ptr>>
     ELSE branchesDir' = TRUE /\ ptr' = "main"
  /\ currBranch' = ptr'
  /\ wpc' = "pull" /\ widx' = 1
  /\ StartFrame
  /\ UNCHANGED <<dockerVars, dirs, migDir, migs, hasExt, hasSeed, m, wtodo,
                 wmigs, inflight, werr, errCh, events, pulls, restored>>

\* The database started as soon as one image has been ensured.
AfterPullStartsDb == wpc' = "dbrun" /\ widx' = 0

\* The step after image widx.
AfterPull ==
  IF widx < Len(Images)
  THEN wpc' = "pull" /\ widx' = widx + 1
  ELSE wpc' = "dbrun" /\ widx' = 0

\* The inspect left out: every image is pulled.
ImagePresentNever(image) == FALSE

\* Docker.ImageInspectWithRaw(ctx, image) returns no error.
ImagePresent(image) == image \in images

\* One image: status message, ImageInspectWithRaw, and ImagePull when the
\* inspect returns an error.
StartPullIssue ==
  /\ Working("start") /\ wpc = "pull" /\ ~inflight /\ CanSend
  /\ Sent(StatusMsg(Images[widx]))
  /\ IF ctxDone
     THEN /\ StartReturn("context canceled")
          /\ UNCHANGED <<widx, inflight, pulls>>
     ELSE IF ImagePresent(Images[widx])
     THEN /\ AfterPull
          /\ UNCHANGED <<inflight, werr, errCh, pulls>>
     ELSE /\ inflight' = TRUE
          /\ pulls' = [pulls EXCEPT ![Images[widx]] = @ + 1]
          /\ UNCHANGED <<wpc, widx, werr, errCh>>
  /\ StartFrame
  /\ UNCHANGED <<dockerVars, fsVars, wtodo, wmigs, currBranch, events,
                 restored>>

\* The remote pull ends.
StartPullComplete ==
  /\ cmd = "start" /\ wpc = "pull" /\ inflight
  /\ inflight' = FALSE
  /\ \/ /\ images' = images \cup {Images[widx]}
        /\ AfterPull
        /\ UNCHANGED <<werr, errCh, events>>
     \/ /\ CallErrors
        /\ StartReturn("pull failed")
        /\ UNCHANGED <<images, widx>>
  /\ StartFrame
  /\ UNCHANGED <<net, containers, dbs, fsVars, m, wtodo, wmigs, currBranch,
                 pulls, restored>>

\* utils.DockerRun of container c can succeed: its name is free and the
\* project network exists.
CanRun(c) == c \notin containers /\ net

\* Start Postgres: status message and DockerRun issued.
StartDbRunIssue ==
  /\ Working("start") /\ wpc = "dbrun" /\ ~inflight /\ CanSend
  /\ IF ctxDone
     THEN /\ Sent(StatusMsg("context canceled"))
          /\ StartReturn("context canceled")
          /\ UNCHANGED inflight
     ELSE /\ Sent(StatusMsg("Starting database..."))
          /\ inflight' = TRUE
          /\ UNCHANGED <<wpc, werr, errCh>>
  /\ StartFrame
  /\ UNCHANGED <<dockerVars, fsVars, widx, wtodo, wmigs, currBranch, events,
                 pulls, restored>>

\* DockerRun of the db container ends.
StartDbRunComplete ==
  /\ cmd = "start" /\ wpc = "dbrun" /\ inflight
  /\ inflight' = FALSE
  /\ \/ /\ CanRun(DbId)
        /\ containers' = containers \cup {DbId}
        /\ dbs' = FreshCluster
        /\ wpc' = "globals"
        /\ UNCHANGED <<werr, errCh, events, m>>
     \/ /\ IF CanRun(DbId) THEN CallErrors ELSE UNCHANGED events
        /\ m' = IF ui = "waiting"
                THEN Update(m, StatusMsg("Error starting container"))
                ELSE m
        /\ StartReturn("Error starting container db")
        /\ UNCHANGED <<containers, dbs>>
  /\ StartFrame
  /\ UNCHANGED <<net, images, fsVars, widx, wtodo, wmigs, currBranch, pulls,
                 restored>>

\* DockerExec on the db container issued: readiness polling, then globals.sql.
StartGlobalsIssue ==
  /\ Working("start") /\ wpc = "globals" /\ ~inflight
  /\ IF ctxDone
     THEN StartReturn("context canceled") /\ UNCHANGED inflight
     ELSE inflight' = TRUE /\ UNCHANGED <<wpc, werr, errCh>>
  /\ StartFrame
  /\ UNCHANGED <<dockerVars, fsVars, m, widx, wtodo, wmigs, currBranch,
                 events, pulls, restored>>

\* The database became ready and globals.sql ran, or the exec reported an
\* error.
StartGlobalsComplete ==
  /\ cmd = "start" /\ wpc = "globals" /\ inflight
  /\ inflight' = FALSE
  /\ \/ /\ DbId \in containers
        /\ dbs' = [dbs EXCEPT !["postgres"] = Applied(@, Item("globals"))]
        /\ wpc' = "restore"
        /\ UNCHANGED <<werr, errCh, events>>
     \/ /\ IF DbId \in containers THEN CallErrors ELSE UNCHANGED events
        /\ StartReturn("Error starting database: globals")
        /\ UNCHANGED dbs
  /\ StartFrame
  /\ UNCHANGED <<net, containers, images, fsVars, m, widx, wtodo, wmigs,
                 currBranch, pulls, restored>>

\* Restore branches: os.ReadDir(".supabase/branches").
StartReadBranches ==
  /\ Working("start") /\ wpc = "restore" /\ CanSend
  /\ Sent(StatusMsg("Restoring branches..."))
  /\ IF branchesDir
     THEN /\ wtodo' = SelectSeq(BranchOrder, LAMBDA b : b \in DOMAIN dirs)
          /\ UNCHANGED branchesDir
     ELSE /\ wtodo' = <<>>
          /\ branchesDir' = TRUE
  /\ wpc' = "restore_loop"
  /\ StartFrame
  /\ UNCHANGED <<dockerVars, ptr, dirs, migDir, migs, hasExt, hasSeed, widx,
                 wmigs, currBranch, inflight, werr, errCh, events, pulls,
                 restored>>

\* A failed restore that ends the loop instead of going on.
RestoreFailedBreaks(b) ==
  /\ dirs' = Del(dirs, b)
  /\ ptr' = "main"
  /\ restored' = Put(restored, b, "failed")
  /\ wtodo' = <<>>

\* The handling of a branch whose restore returned an error: remove its
\* directory, rewrite the pointer file, go on with the next branch.
RestoreFailed(b) ==
  /\ dirs' = Del(dirs, b)
  /\ ptr' = "main"
  /\ restored' = Put(restored, b, "failed")
  /\ wtodo' = Tail(wtodo)

\* One branch: read its dump.sql and issue the DockerExec replaying it.
StartRestoreIssue ==
  /\ Working("start") /\ wpc = "restore_loop" /\ ~inflight
  /\ wtodo # <<>>
  /\ IF dirs[Head(wtodo)] = "missing" \/ ctxDone
     THEN RestoreFailed(Head(wtodo)) /\ UNCHANGED inflight
     ELSE inflight' = TRUE /\ UNCHANGED <<ptr, dirs, restored, wtodo>>
  /\ StartFrame
  /\ UNCHANGED <<dockerVars, branchesDir, migDir, migs, hasExt, hasSeed, m,
                 wpc, widx, wmigs, currBranch, werr, errCh, events, pulls>>

\* The psql script of a branch ends: CREATE DATABASE, then the dump in one
\* transaction, stopping at the first error.
StartRestoreComplete ==
  /\ cmd = "start" /\ wpc = "restore_loop" /\ inflight
  /\ inflight' = FALSE
  /\ LET b == Head(wtodo)
         creates == DbId \in containers /\ b \notin DOMAIN dbs
     IN \/ /\ creates /\ dirs[b] = "valid"
           /\ dbs' = Put(dbs, b, Db(b, <<Item("dump")>>))
           /\ restored' = Put(restored, b, "ok")
           /\ wtodo' = Tail(wtodo)
           /\ UNCHANGED <<ptr, dirs, events>>
        \/ /\ creates /\ dirs[b] = "corrupt"
           /\ dbs' = Put(dbs, b, Db(b, <<>>))
           /\ RestoreFailed(b)
           /\ UNCHANGED events
        \/ /\ IF creates THEN CallErrors ELSE UNCHANGED events
           /\ RestoreFailed(b)
           /\ UNCHANGED dbs
  /\ StartFrame
  /\ UNCHANGED <<net, containers, images, branchesDir, migDir, migs, hasExt,
                 hasSeed, m, wpc, widx, wmigs, currBranch, werr, errCh, pulls>>

\* Ensure `main` branch exists: os.ReadDir(".supabase/branches/main"), and
\* os.Mkdir when it does not exist.
StartEnsureMainDir ==
  /\ Working("start") /\ wpc = "restore_loop" /\ ~inflight
  /\ wtodo = <<>>
  /\ IF "main" \in DOMAIN dirs
     THEN wpc' = "promote" /\ UNCHANGED dirs
     ELSE wpc' = "em_createdb" /\ dirs' = Put(dirs, "main", "missing")
  /\ StartFrame
  /\ UNCHANGED <<dockerVars, branchesDir, ptr, migDir, migs, hasExt, hasSeed,
                 m, widx, wtodo, wmigs, currBranch, inflight, werr, errCh,
                 events, pulls, restored>>

\* The error returned with the main directory left in place.
EnsureMainFailedKeepsDir(err) ==
  /\ UNCHANGED dirs
  /\ StartReturn(err)

\* A failure inside the ensure-main closure: remove the main directory and
\* return the error.
EnsureMainFailed(err) ==
  /\ dirs' = Del(dirs, "main")
  /\ StartReturn(err)

\* A psql or createdb exec against database `main` can run.
MainReachable == DbId \in containers /\ "main" \in DOMAIN dbs

\* createdb main, issued.
StartCreateMainIssue ==
  /\ Working("start") /\ wpc = "em_createdb" /\ ~inflight
  /\ IF ctxDone
     THEN EnsureMainFailed("context canceled") /\ UNCHANGED inflight
     ELSE inflight' = TRUE /\ UNCHANGED <<dirs, wpc, werr, errCh>>
  /\ StartFrame
  /\ UNCHANGED <<dockerVars, branchesDir, ptr, migDir, migs, hasExt, hasSeed,
                 m, widx, wtodo, wmigs, currBranch, events, pulls, restored>>

\* createdb main ends.
StartCreateMainComplete ==
  /\ cmd = "start" /\ wpc = "em_createdb" /\ inflight
  /\ inflight' = FALSE
  /\ LET creates == DbId \in containers /\ "main" \notin DOMAIN dbs
     IN \/ /\ creates
           /\ dbs' = Put(dbs, "main", Db("main", <<>>))
           /\ wpc' = "em_schema"
           /\ UNCHANGED <<dirs, werr, errCh, events>>
        \/ /\ IF creates THEN CallErrors ELSE UNCHANGED events
           /\ EnsureMainFailed("Error creating database")
           /\ UNCHANGED dbs
  /\ StartFrame
  /\ UNCHANGED <<net, containers, images, branchesDir, ptr, migDir, migs,
                 hasExt, hasSeed, m, widx, wtodo, wmigs, currBranch, pulls,
                 restored>>

\* The SQL steps of ensure-main around the migrations: initial schema,
\* extensions.sql, seed.sql; the last two only when their file exists.
MainSqlStatus(pc) ==
  CASE pc = "em_schema" -> "Setting up initial schema..."
    [] pc = "em_ext" -> "Applying .supabase/extensions.sql..."
    [] pc = "em_seed" -> "Applying .supabase/seed.sql..."
MainSqlItem(pc) ==
  CASE pc = "em_schema" -> Item("schema")
    [] pc = "em_ext" -> Item("extensions")
    [] pc = "em_seed" -> Item("seed")
MainSqlHasFile(pc) ==
  CASE pc = "em_schema" -> TRUE
    [] pc = "em_ext" -> hasExt
    [] pc = "em_seed" -> hasSeed
MainSqlNext(pc) ==
  CASE pc = "em_schema" -> "em_ext"
    [] pc = "em_ext" -> "em_readdir"
    [] pc = "em_seed" -> "promote"

StartMainSqlIssue ==
  /\ Working("start") /\ wpc \in {"em_schema", "em_ext", "em_seed"}
  /\ ~inflight /\ CanSend
  /\ Sent(StatusMsg(MainSqlStatus(wpc)))
  /\ IF ~MainSqlHasFile(wpc)
     THEN wpc' = MainSqlNext(wpc) /\ UNCHANGED <<dirs, inflight, werr, errCh>>
     ELSE IF ctxDone
     THEN EnsureMainFailed("context canceled") /\ UNCHANGED inflight
     ELSE inflight' = TRUE /\ UNCHANGED <<dirs, wpc, werr, errCh>>
  /\ StartFrame
  /\ UNCHANGED <<dockerVars, branchesDir, ptr, migDir, migs, hasExt, hasSeed,
                 widx, wtodo, wmigs, currBranch, events, pulls, restored>>

StartMainSqlComplete ==
  /\ cmd = "start" /\ wpc \in {"em_schema", "em_ext", "em_seed"} /\ inflight
  /\ inflight' = FALSE
  /\ \/ /\ MainReachable
        /\ dbs' = [dbs EXCEPT !["main"] = Applied(@, MainSqlItem(wpc))]
        /\ wpc' = MainSqlNext(wpc)
        /\ UNCHANGED <<dirs, werr, errCh, events>>
     \/ /\ IF MainReachable THEN CallErrors ELSE UNCHANGED events
        /\ EnsureMainFailed("Error starting database")
        /\ UNCHANGED dbs
  /\ StartFrame
  /\ UNCHANGED <<net, containers, images, branchesDir, ptr, migDir, migs,
                 hasExt, hasSeed, m, widx, wtodo, wmigs, currBranch, pulls,
                 restored>>

\* MkdirIfNotExist and os.ReadDir of .supabase/migrations.
StartReadMigrations ==
  /\ Working("start") /\ wpc = "em_readdir"
  /\ migDir' = TRUE
  /\ wmigs' = ReadDir(DOMAIN migs)
  /\ widx' = 0
  /\ wpc' = "em_mig"
  /\ StartFrame
  /\ UNCHANGED <<dockerVars, branchesDir, ptr, dirs, migs, hasExt, hasSeed, m,
                 wtodo, currBranch, inflight, werr, errCh, events, pulls,
                 restored>>

\* One turn of the migration loop of ensure-main, up to the DockerExec.
StartMigrationIssue ==
  /\ Working("start") /\ wpc = "em_mig" /\ ~inflight
  /\ IF widx = Len(wmigs)
     THEN /\ wpc' = "em_seed"
          /\ UNCHANGED <<dirs, m, widx, inflight, werr, errCh>>
     ELSE IF StartSkips(widx, wmigs[widx + 1])
     THEN /\ widx' = widx + 1
          /\ UNCHANGED <<dirs, m, wpc, inflight, werr, errCh>>
     ELSE /\ CanSend
          /\ Sent(StatusMsg("Applying migration..."))
          /\ IF ctxDone
             THEN /\ EnsureMainFailed("context canceled")
                  /\ UNCHANGED <<widx, inflight>>
             ELSE /\ inflight' = TRUE
                  /\ UNCHANGED <<dirs, wpc, widx, werr, errCh>>
  /\ StartFrame
  /\ UNCHANGED <<dockerVars, branchesDir, ptr, migDir, migs, hasExt, hasSeed,
                 wtodo, wmigs, currBranch, events, pulls, restored>>

\* The psql replay of a migration into `main` ends.
StartMigrationComplete ==
  /\ cmd = "start" /\ wpc = "em_mig" /\ inflight
  /\ inflight' = FALSE
  /\ \/ /\ MainReachable
        /\ dbs' = [dbs EXCEPT !["main"] = Applied(@, MigItem(wmigs[widx + 1]))]
        /\ widx' = widx + 1
        /\ UNCHANGED <<dirs, wpc, werr, errCh, events>>
     \/ /\ IF MainReachable THEN CallErrors ELSE UNCHANGED events
        /\ EnsureMainFailed("Error starting database")
        /\ UNCHANGED <<dbs, widx>>
  /\ StartFrame
  /\ UNCHANGED <<net, containers, images, branchesDir, ptr, migDir, migs,
                 hasExt, hasSeed, m, wtodo, wmigs, currBranch, pulls, restored>>

\* Set up current branch: the DockerExec issued.
StartPromoteIssue ==
  /\ Working("start") /\ wpc = "promote" /\ ~inflight
  /\ IF ctxDone
     THEN StartReturn("context canceled") /\ UNCHANGED inflight
     ELSE inflight' = TRUE /\ UNCHANGED <<wpc, werr, errCh>>
  /\ StartFrame
  /\ UNCHANGED <<dockerVars, fsVars, m, widx, wtodo, wmigs, currBranch,
                 events, pulls, restored>>

\* The psql script ends: DROP DATABASE postgres, then ALTER DATABASE
\* currBranch RENAME TO postgres, stopping at the first error.
StartPromoteComplete ==
  /\ cmd = "start" /\ wpc = "promote" /\ inflight
  /\ inflight' = FALSE
  /\ LET drops == DbId \in containers /\ "postgres" \in DOMAIN dbs
         renames == currBranch \in DOMAIN dbs \ {"postgres"}
     IN \/ /\ drops /\ renames
           /\ dbs' = Put(Del(Del(dbs, "postgres"), currBranch), "postgres",
                         dbs[currBranch])
           /\ wpc' = "svc" /\ widx' = 1
           /\ UNCHANGED <<werr, errCh, events>>
        \/ /\ drops /\ ~renames
           /\ dbs' = Del(dbs, "postgres")
           /\ StartReturn("Error starting database: rename")
           /\ UNCHANGED <<widx, events>>
        \/ /\ IF drops THEN CallErrors ELSE UNCHANGED events
           /\ StartReturn("Error starting database: promote")
           /\ UNCHANGED <<dbs, widx>>
  /\ StartFrame
  /\ UNCHANGED <<net, containers, images, fsVars, m, wtodo, wmigs, currBranch,
                 pulls, restored>>

\* DockerRun of the next service container, issued; the status message
\* precedes the first.
StartServiceIssue ==
  /\ Working("start") /\ wpc = "svc" /\ ~inflight
  /\ IF widx = 1
     THEN CanSend /\ Sent(StatusMsg("Starting containers..."))
     ELSE UNCHANGED m
  /\ IF ctxDone
     THEN StartReturn("context canceled") /\ UNCHANGED inflight
     ELSE inflight' = TRUE /\ UNCHANGED <<wpc, werr, errCh>>
  /\ StartFrame
  /\ UNCHANGED <<dockerVars, fsVars, widx, wtodo, wmigs, currBranch, events,
                 pulls, restored>>

\* DockerRun of a service container ends; after the last one run returns nil.
StartServiceComplete ==
  /\ cmd = "start" /\ wpc = "svc" /\ inflight
  /\ inflight' = FALSE
  /\ \/ /\ CanRun(Services[widx])
        /\ containers' = containers \cup {Services[widx]}
        /\ IF widx < Len(Services)
           THEN widx' = widx + 1 /\ UNCHANGED <<wpc, werr, errCh>>
           ELSE StartReturn(NoErr) /\ UNCHANGED widx
        /\ UNCHANGED events
     \/ /\ IF CanRun(Services[widx]) THEN CallErrors ELSE UNCHANGED events
        /\ StartReturn("Error starting container")
        /\ UNCHANGED <<containers, widx>>
  /\ StartFrame
  /\ UNCHANGED <<net, images, dbs, fsVars, m, wtodo, wmigs, currBranch, pulls,
                 restored>>

StartNext ==
  \/ StartRun \/ StartCtrlCCleanup \/ StartReturnAborted \/ StartReturnResult
  \/ StartNetworkCreate \/ StartEnsureCurrentBranch
  \/ StartPullIssue \/ StartPullComplete
  \/ StartDbRunIssue \/ StartDbRunComplete
  \/ StartGlobalsIssue \/ StartGlobalsComplete
  \/ StartReadBranches \/ StartRestoreIssue \/ StartRestoreComplete
  \/ StartEnsureMainDir
  \/ StartCreateMainIssue \/ StartCreateMainComplete
  \/ StartMainSqlIssue \/ StartMainSqlComplete
  \/ StartReadMigrations \/ StartMigrationIssue \/ StartMigrationComplete
  \/ StartPromoteIssue \/ StartPromoteComplete
  \/ StartServiceIssue \/ StartServiceComplete

(***************************************************************************)
(* db commit: Run.                                                         *)
(***************************************************************************)
\* The names a migration is committed under.
CommitNames == {<<"u">>}
\* What the diff tool prints, a function of the databases it compares: here
\* the number of statements replayed into the shadow database.
DiffPayload == <<Len(dbs[ShadowDbName].log)>>

DigitChar(n) == CHOOSE c \in Digits : DigitVal(c) = n

\* utils.GetCurrentTimestamp at second t after 2022-01-01 00:00:00 UTC:
\* time.Now().UTC().Format("20060102150405").
GetCurrentTimestamp(t) ==
  <<"2", "0", "2", "2", "0", "1", "0", "1", "0", "0", "0", "0",
    DigitChar((t \div 10) % 6), DigitChar(t % 10)>>

\* ".supabase/migrations/" + GetCurrentTimestamp() + "_" + name + ".sql"
NewMigrationName(t, name) ==
  GetCurrentTimestamp(t) \o <<"_">> \o name \o SqlSuffix

\* Run of commit: the sanity check, then the UI loop and the worker.
CommitRun ==
  /\ ShellReady
  /\ \E name \in CommitNames : Launched("commit", name)
  /\ IF DbId \notin containers
     THEN /\ mainPc' = "returned" /\ result' = "supabase start is not running"
          /\ ui' = "off" /\ wpc' = "off"
     ELSE /\ mainPc' = "ui" /\ result' = NoValue
          /\ ui' = "waiting" /\ wpc' = "sh_create"
  /\ UNCHANGED <<dockerVars, fsVars, now, events, pulls>>

\* cleanup(): dropdb supabase_shadow on the db container, under a context
\* of its own, the result ignored.
ShadowDropped == IF DbId \in containers THEN Del(dbs, ShadowDbName) ELSE dbs

\* A key handler of commit that cleans up as the one of start does.
CommitCtrlCCleanupRemovesAll ==
  /\ cmd = "commit" /\ mainPc = "ui" /\ ui = "handling"
  /\ containers' = {} /\ dbs' = DbsWithout(containers)
  /\ ui' = "ended" /\ mainPc' = "post"
  /\ UNCHANGED <<net, images, fsVars, now, cmd, arg, result, m, ctxDone,
                 workVars, histVars>>

\* The key handler of commit, second half: cleanup(), then tea.Quit ends
\* the UI loop.
CommitCtrlCCleanup ==
  /\ cmd = "commit" /\ mainPc = "ui" /\ ui = "handling"
  /\ dbs' = ShadowDropped
  /\ ui' = "ended" /\ mainPc' = "post"
  /\ UNCHANGED <<net, containers, images, fsVars, now, cmd, arg, result, m,
                 ctxDone, workVars, histVars>>

\* Run after p.Start() returned: the context was cancelled.
CommitReturnAborted ==
  /\ cmd = "commit" /\ mainPc = "post" /\ ctxDone
  /\ mainPc' = "returned" /\ result' = "Aborted"
  /\ UNCHANGED <<dockerVars, fsVars, now, cmd, arg, ui, m, ctxDone, workVars,
                 histVars>>

\* Run after p.Start() returned: receive the worker's error, then read the
\* current branch for the closing message.
CommitReturnResult ==
  /\ cmd = "commit" /\ mainPc = "post" /\ ~ctxDone
  /\ errCh # NoValue
  /\ mainPc' = "returned"
  /\ errCh' = NoValue
  /\ result' = IF errCh # NoErr THEN errCh
               ELSE IF ptr = NoFile THEN "open _current_branch: no such file"
               ELSE "Finished"
  /\ UNCHANGED <<dockerVars, fsVars, now, cmd, arg, ui, m, ctxDone, wpc, widx,
                 wtodo, wmigs, wdiff, currBranch, inflight, werr, histVars>>

(***************************************************************************)
(* db commit: run, the worker.                                             *)
(***************************************************************************)
CommitFrame == WorkerFrame /\ UNCHANGED <<wtodo, currBranch, pulls, restored>>

\* run returns err: the deferred cleanup() is next.
CommitReturn(err) == wpc' = "cleanup" /\ werr' = err

\* A psql exec against the shadow database can run.
ShadowReachable == DbId \in containers /\ ShadowDbName \in DOMAIN dbs

\* createdb supabase_shadow, issued after the status message.
CommitCreateShadowIssue ==
  /\ Working("commit") /\ wpc = "sh_create" /\ ~inflight /\ CanSend
  /\ Sent(StatusMsg("Creating shadow database..."))
  /\ IF ctxDone
     THEN CommitReturn("context canceled") /\ UNCHANGED inflight
     ELSE inflight' = TRUE /\ UNCHANGED <<wpc, werr>>
  /\ CommitFrame
  /\ UNCHANGED <<dockerVars, fsVars, now, widx, wmigs, wdiff, errCh, events>>

\* createdb supabase_shadow ends.
CommitCreateShadowComplete ==
  /\ cmd = "commit" /\ wpc = "sh_create" /\ inflight
  /\ inflight' = FALSE
  /\ LET creates == DbId \in containers /\ ShadowDbName \notin DOMAIN dbs
     IN \/ /\ creates
           /\ dbs' = Put(dbs, ShadowDbName, Db(ShadowDbName, <<>>))
           /\ wpc' = "sh_schema"
           /\ UNCHANGED <<werr, events>>
        \/ /\ IF creates THEN CallErrors ELSE UNCHANGED events
           /\ CommitReturn("Error creating shadow database")
           /\ UNCHANGED dbs
  /\ CommitFrame
  /\ UNCHANGED <<net, containers, images, fsVars, now, m, widx, wmigs, wdiff,
                 errCh>>

\* The SQL steps before the migrations: initial schema, then extensions.sql
\* when the file exists.
CommitShadowSqlIssue ==
  /\ Working("commit") /\ wpc \in {"sh_schema", "sh_ext"} /\ ~inflight
  /\ IF wpc = "sh_ext" /\ ~hasExt
     THEN wpc' = "sh_readdir" /\ UNCHANGED <<inflight, werr>>
     ELSE IF ctxDone
     THEN CommitReturn("context canceled") /\ UNCHANGED inflight
     ELSE inflight' = TRUE /\ UNCHANGED <<wpc, werr>>
  /\ CommitFrame
  /\ UNCHANGED <<dockerVars, fsVars, now, m, widx, wmigs, wdiff, errCh,
                 events>>

CommitShadowSqlComplete ==
  /\ cmd = "commit" /\ wpc \in {"sh_schema", "sh_ext"} /\ inflight
  /\ inflight' = FALSE
  /\ \/ /\ ShadowReachable
        /\ dbs' = [dbs EXCEPT ![ShadowDbName] =
                     Applied(@, IF wpc = "sh_schema" THEN Item("schema")
                                ELSE Item("extensions"))]
        /\ wpc' = IF wpc = "sh_schema" THEN "sh_ext" ELSE "sh_readdir"
        /\ UNCHANGED <<werr, events>>
     \/ /\ IF ShadowReachable THEN CallErrors ELSE UNCHANGED events
        /\ CommitReturn("Error starting shadow database")
        /\ UNCHANGED dbs
  /\ CommitFrame
  /\ UNCHANGED <<net, containers, images, fsVars, now, m, widx, wmigs, wdiff,
                 errCh>>

\* MkdirIfNotExist and os.ReadDir of .supabase/migrations.
CommitReadMigrations ==
  /\ Working("commit") /\ wpc = "sh_readdir"
  /\ migDir' = TRUE
  /\ wmigs' = ReadDir(DOMAIN migs)
  /\ widx' = 0
  /\ wpc' = "sh_mig"
  /\ CommitFrame
  /\ UNCHANGED <<dockerVars, branchesDir, ptr, dirs, migs, hasExt, hasSeed,
                 now, m, wdiff, inflight, werr, errCh, events>>

\* One turn of the migration loop of commit, up to the DockerExec.
CommitMigrationIssue ==
  /\ Working("commit") /\ wpc = "sh_mig" /\ ~inflight
  /\ IF widx = Len(wmigs)
     THEN /\ wpc' = "diff"
          /\ UNCHANGED <<m, widx, inflight, werr>>
     ELSE IF CommitSkips(widx, wmigs[widx + 1])
     THEN /\ widx' = widx + 1
          /\ UNCHANGED <<m, wpc, inflight, werr>>
     ELSE /\ CanSend
          /\ Sent(StatusMsg("Applying migration..."))
          /\ IF ctxDone
             THEN /\ CommitReturn("context canceled")
                  /\ UNCHANGED <<widx, inflight>>
             ELSE /\ inflight' = TRUE
                  /\ UNCHANGED <<wpc, widx, werr>>
  /\ CommitFrame
  /\ UNCHANGED <<dockerVars, fsVars, now, wmigs, wdiff, errCh, events>>

\* A replay loop of commit that notes the error of a migration and goes on
\* with the next file.
CommitMigrationCompleteGoesOn ==
  /\ cmd = "commit" /\ wpc = "sh_mig" /\ inflight
  /\ inflight' = FALSE
  /\ \/ /\ ShadowReachable
        /\ dbs' = [dbs EXCEPT ![ShadowDbName] =
                     Applied(@, MigItem(wmigs[widx + 1]))]
        /\ widx' = widx + 1
        /\ UNCHANGED <<wpc, werr, events>>
     \/ /\ IF ShadowReachable THEN CallErrors ELSE UNCHANGED events
        /\ werr' = "Error starting shadow database"
        /\ widx' = widx + 1
        /\ UNCHANGED <<dbs, wpc>>
  /\ CommitFrame
  /\ UNCHANGED <<net, containers, images, fsVars, now, m, wmigs, wdiff, errCh>>

\* The psql replay of a migration into the shadow database ends.
CommitMigrationComplete ==
  /\ cmd = "commit" /\ wpc = "sh_mig" /\ inflight
  /\ inflight' = FALSE
  /\ \/ /\ ShadowReachable
        /\ dbs' = [dbs EXCEPT ![ShadowDbName] =
                     Applied(@, MigItem(wmigs[widx + 1]))]
        /\ widx' = widx + 1
        /\ UNCHANGED <<wpc, werr, events>>
     \/ /\ IF ShadowReachable THEN CallErrors ELSE UNCHANGED events
        /\ CommitReturn("Error starting shadow database")
        /\ UNCHANGED <<dbs, widx>>
  /\ CommitFrame
  /\ UNCHANGED <<net, containers, images, fsVars, now, m, wmigs, wdiff, errCh>>

\* The diff tool run on the differ container, issued after the status message.
CommitDiffIssue ==
  /\ Working("commit") /\ wpc = "diff" /\ ~inflight /\ CanSend
  /\ Sent(StatusMsg("Diffing local database with current migrations..."))
  /\ IF ctxDone
     THEN CommitReturn("context canceled") /\ UNCHANGED inflight
     ELSE inflight' = TRUE /\ UNCHANGED <<wpc, werr>>
  /\ CommitFrame
  /\ UNCHANGED <<dockerVars, fsVars, now, widx, wmigs, wdiff, errCh, events>>

\* The diff tool can connect to both databases.
Diffable ==
  /\ {DbId, DifferId} \subseteq containers
  /\ {"postgres", ShadowDbName} \subseteq DOMAIN dbs

\* The diff tool ends: utils.ProcessDiffOutput returns its payload or an error.
CommitDiffComplete ==
  /\ cmd = "commit" /\ wpc = "diff" /\ inflight
  /\ inflight' = FALSE
  /\ \/ /\ Diffable
        /\ wdiff' = DiffPayload
        /\ wpc' = "write"
        /\ UNCHANGED <<werr, events>>
     \/ /\ IF Diffable THEN CallErrors ELSE UNCHANGED events
        /\ CommitReturn("diff failed")
        /\ UNCHANGED wdiff
  /\ CommitFrame
  /\ UNCHANGED <<dockerVars, fsVars, now, m, widx, wmigs, errCh>>

\* os.WriteFile of the new migration, named after the current second.
CommitWriteMigration ==
  /\ Working("commit") /\ wpc = "write"
  /\ \E t \in {now, now + 1} :
       /\ t <= MaxClock
       /\ now' = t
       /\ migs' = Put(migs, NewMigrationName(t, arg), wdiff)
  /\ CommitReturn(NoErr)
  /\ CommitFrame
  /\ UNCHANGED <<dockerVars, branchesDir, ptr, dirs, migDir, hasExt, hasSeed,
                 m, widx, wmigs, wdiff, inflight, errCh, events>>

\* A run whose deferred cleanup() drops nothing.
CommitDeferredCleanupKeeps ==
  /\ Working("commit") /\ wpc = "cleanup"
  /\ errCh' = werr
  /\ wpc' = "quit"
  /\ CommitFrame
  /\ UNCHANGED <<dockerVars, fsVars, now, m, widx, wmigs, wdiff, inflight,
                 werr, events>>

\* The deferred cleanup() of run, then the goroutine puts run's error on
\* errCh (buffered, never blocks).
CommitDeferredCleanup ==
  /\ Working("commit") /\ wpc = "cleanup"
  /\ dbs' = ShadowDropped
  /\ errCh' = werr
  /\ wpc' = "quit"
  /\ CommitFrame
  /\ UNCHANGED <<net, containers, images, fsVars, now, m, widx, wmigs, wdiff,
                 inflight, werr, events>>

CommitNext ==
  \/ CommitRun \/ CommitCtrlCCleanup \/ CommitReturnAborted
  \/ CommitReturnResult
  \/ CommitCreateShadowIssue \/ CommitCreateShadowComplete
  \/ CommitShadowSqlIssue \/ CommitShadowSqlComplete
  \/ CommitReadMigrations \/ CommitMigrationIssue \/ CommitMigrationComplete
  \/ CommitDiffIssue \/ CommitDiffComplete
  \/ CommitWriteMigration \/ CommitDeferredCleanup

(***************************************************************************)
(* stop: Run.                                                              *)
(***************************************************************************)
StopFrame ==
  UNCHANGED <<images, now, arg, ui, m, ctxDone, workVars, pulls,
              restored, logged>>

\* The temporary files removed ahead of the sanity check.
StopRunRemovesFirst ==
  /\ ShellReady
  /\ cmd' = "stop" /\ snap' = Snapshot
  /\ branchesDir' = FALSE /\ ptr' = NoFile /\ dirs' = Empty
  /\ IF DbId \notin containers
     THEN mainPc' = "returned" /\ result' = "already stopped"
     ELSE mainPc' = "stop_remove" /\ result' = NoValue
  /\ StopFrame
  /\ UNCHANGED <<net, containers, dbs, migDir, migs, hasExt, hasSeed, events>>

\* The sanity check: nothing to do when the db container does not exist.
StopRun ==
  /\ ShellReady
  /\ cmd' = "stop" /\ snap' = Snapshot
  /\ IF DbId \notin containers
     THEN mainPc' = "returned" /\ result' = "already stopped"
     ELSE mainPc' = "stop_remove" /\ result' = NoValue
  /\ StopFrame
  /\ UNCHANGED <<net, containers, dbs, fsVars, events>>

\* ContainerList, then one ContainerRemove goroutine per container, errors
\* ignored, and wg.Wait().
StopRemoveContainers ==
  /\ cmd = "stop" /\ mainPc = "stop_remove"
  /\ \/ /\ \E kept \in MayKeep :
             /\ DockerRemoveAll(kept)
             /\ events' = events + Cardinality(kept)
        /\ mainPc' = "stop_prune"
        /\ UNCHANGED result
     \/ /\ EventsLeft > 0 /\ events' = events + 1
        /\ mainPc' = "returned" /\ result' = "container list failed"
        /\ UNCHANGED <<containers, dbs>>
  /\ StopFrame
  /\ UNCHANGED <<net, fsVars, cmd, snap>>

\* NetworksPrune with its error ignored: the files are removed all the same.
StopPruneNetworksUnchecked ==
  /\ cmd = "stop" /\ mainPc = "stop_prune"
  /\ \/ /\ net' = NetworkRemove(containers)
        /\ UNCHANGED events
     \/ /\ EventsLeft > 0 /\ events' = events + 1
        /\ UNCHANGED net
  /\ mainPc' = "stop_files"
  /\ StopFrame
  /\ UNCHANGED <<containers, dbs, fsVars, cmd, snap, result>>

\* NetworksPrune: removes the project network unless a container uses it.
StopPruneNetworks ==
  /\ cmd = "stop" /\ mainPc = "stop_prune"
  /\ \/ /\ net' = NetworkRemove(containers)
        /\ mainPc' = "stop_files"
        /\ UNCHANGED <<result, events>>
     \/ /\ EventsLeft > 0 /\ events' = events + 1
        /\ mainPc' = "returned" /\ result' = "network prune failed"
        /\ UNCHANGED net
  /\ StopFrame
  /\ UNCHANGED <<containers, dbs, fsVars, cmd, snap>>

\* The temporary files left in place.
StopRemoveFilesSkipped ==
  /\ cmd = "stop" /\ mainPc = "stop_files"
  /\ mainPc' = "returned" /\ result' = "Stopped"
  /\ StopFrame
  /\ UNCHANGED <<net, containers, dbs, fsVars, cmd, snap, events>>

\* os.RemoveAll(".supabase/branches").
StopRemoveFiles ==
  /\ cmd = "stop" /\ mainPc = "stop_files"
  /\ branchesDir' = FALSE /\ ptr' = NoFile /\ dirs' = Empty
  /\ mainPc' = "returned" /\ result' = "Stopped"
  /\ StopFrame
  /\ UNCHANGED <<net, containers, dbs, migDir, migs, hasExt, hasSeed, cmd,
                 snap, events>>

StopNext ==
  \/ StopRun \/ StopRemoveContainers \/ StopPruneNetworks \/ StopRemoveFiles

Next ==
  StartNext \/ CommitNext \/ StopNext \/ KeyCtrlC \/ WorkerQuit \/ ProcessExit

Spec == Init /\ [][Next]_vars

(***************************************************************************)
(* Scheduling: the key handler runs to its end on the UI goroutine and     *)
(* Run goes on when p.Start() has returned. Nothing is assumed of the      *)
(* worker or of the calls it has in flight.                                *)
(***************************************************************************)
FairSpec ==
  /\ Spec
  /\ WF_vars(StartCtrlCCleanup) /\ WF_vars(StartReturnAborted)
  /\ WF_vars(CommitCtrlCCleanup) /\ WF_vars(CommitReturnAborted)

(***************************************************************************)
(* The access token: utils.LoadAccessToken applied to the override         *)
(* variable SUPABASE_ACCESS_TOKEN and the file ~/.supabase/access-token.   *)
(* Tokens are sequences of characters.                                     *)
(***************************************************************************)
HexChars == Digits \cup {"a", "b", "c", "d", "e", "f"}
TokenPrefix == <<"s", "b", "p", "_">>
\* The repetition count of the character class in the pattern.
TokenHexLen == 40

\* regexp.MatchString(`^sbp_[a-f0-9]{40}$`, token).
MatchToken(token) ==
  /\ Len(token) = Len(TokenPrefix) + TokenHexLen
  /\ SubSeq(token, 1, Len(TokenPrefix)) = TokenPrefix
  /\ \A k \in (Len(TokenPrefix) + 1)..Len(token) : token[k] \in HexChars

\* The (string, error) pair a call returns.
Returned(token, err) == [token |-> token, err |-> err]

\* The token file: absent, or present with its content.
TokenFile(exists, content) == [exists |-> exists, content |-> content]

\* utils.LoadAccessToken.
LoadAccessToken(env, file) ==
  IF env # <<>>
  THEN IF MatchToken(env) THEN Returned(env, NoErr)
       ELSE Returned(<<>>, "Invalid access token format")
  ELSE IF ~file.exists \/ file.content = <<>>
       THEN Returned(<<>>, "Access token not provided")
       ELSE Returned(file.content, NoErr)

Rep(c, n) == [k \in 1..n |-> c]

\* The strings tried as the variable and as the content of the file.
TokenStrings ==
  { TokenPrefix \o Rep("a", TokenHexLen),
    TokenPrefix \o Rep("7", TokenHexLen),
    TokenPrefix \o Rep("f", TokenHexLen - 1) \o <<"0">>,
    TokenPrefix \o Rep("a", TokenHexLen - 1),
    TokenPrefix \o Rep("a", TokenHexLen + 1),
    TokenPrefix \o Rep("a", TokenHexLen - 1) \o <<"g">>,
    TokenPrefix \o Rep("A", TokenHexLen),
    <<"s", "b", "q", "_">> \o Rep("a", TokenHexLen),
    <<"x">> \o TokenPrefix \o Rep("a", TokenHexLen),
    TokenPrefix \o Rep("a", TokenHexLen) \o <<"\n">> }

TokenFiles ==
  {TokenFile(FALSE, <<>>)}
    \cup {TokenFile(TRUE, s) : s \in TokenStrings \cup {<<>>}}

\* `secrets set` about to load the access token, on a project that was
\* never started.
TokenInit ==
  /\ net = FALSE /\ containers = {} /\ images = {} /\ dbs = Empty
  /\ branchesDir = FALSE /\ ptr = NoFile /\ dirs = Empty
  /\ migDir = FALSE /\ migs = Empty /\ hasExt = FALSE /\ hasSeed = FALSE
  /\ now = 0 /\ events = 0
  /\ cmd = "secrets set" /\ mainPc = "load" /\ result = NoValue
  /\ \E env \in TokenStrings \cup {<<>>}, file \in TokenFiles :
       arg = [env |-> env, file |-> file]
  /\ ui = "off" /\ m = InitModel /\ ctxDone = FALSE
  /\ wpc = "off" /\ widx = 0 /\ wtodo = <<>> /\ wmigs = <<>> /\ wdiff = <<>>
  /\ currBranch = NoFile /\ inflight = FALSE /\ werr = NoErr
  /\ errCh = NoValue
  /\ pulls = [i \in Range(Images) |-> 0] /\ restored = Empty
  /\ snap = <<>> /\ logged = <<>>

\* accessToken, err := utils.LoadAccessToken() in `secrets set`.
TokenLoad ==
  /\ cmd = "secrets set" /\ mainPc = "load"
  /\ result' = LoadAccessToken(arg.env, arg.file)
  /\ mainPc' = "returned"
  /\ UNCHANGED <<dockerVars, fsVars, now, cmd, arg, ui, m, ctxDone, workVars,
                 histVars>>

TokenNext == TokenLoad

TokenSpec == TokenInit /\ [][TokenNext]_vars

(***************************************************************************)
(* The UI state machine alone: model.Update applied to any sequence of     *)
(* messages while the UI loop of a freshly launched start runs.            *)
(***************************************************************************)
\* The lines of psql output a behaviour may deliver between two clearings.
MaxLines == 7

\* The messages the UI loop hands to Update (Ctrl-C is KeyCtrlC above).
Messages ==
  {KeyMsg("enter"), TickMsg, FrameMsg, PsqlNil}
    \cup {WindowSizeMsg(w) : w \in {40, 80}}
    \cup {StatusMsg(t) : t \in {"Pulling images...", "Starting database..."}}
    \cup {ProgressMsg(pct) : pct \in {NoProgress, 0, 100}}
    \cup {PsqlMsg(line) : line \in {"CREATE TABLE", "ALTER TABLE"}}

\* The psql lines delivered since the last clearing, after msg.
Logged(msg) ==
  CASE msg.type = "psql" -> Append(logged, msg.text)
    [] msg.type = "psqlnil" -> <<>>
    [] OTHER -> logged

\* The UI loop takes one message and replaces its model by Update's.
UiDeliver ==
  /\ mainPc = "ui" /\ ui = "waiting"
  /\ \E msg \in Messages :
       /\ msg.type = "psql" => Len(logged) < MaxLines
       /\ m' = Update(m, msg)
       /\ logged' = Logged(msg)
  /\ UNCHANGED <<dockerVars, fsVars, now, mainVars, ctxDone, workVars, events,
                 pulls, restored, snap>>

\* start launched on a project that was never started.
UiInit ==
  /\ net = FALSE /\ containers = {} /\ images = {} /\ dbs = Empty
  /\ branchesDir = FALSE /\ ptr = NoFile /\ dirs = Empty
  /\ migDir = FALSE /\ migs = Empty /\ hasExt = FALSE /\ hasSeed = FALSE
  /\ now = 0 /\ events = 0
  /\ cmd = "start" /\ arg = <<>> /\ mainPc = "ui" /\ result = NoValue
  /\ ui = "waiting" /\ m = InitModel /\ ctxDone = FALSE
  /\ wpc = "net" /\ widx = 0 /\ wtodo = <<>> /\ wmigs = <<>> /\ wdiff = <<>>
  /\ currBranch = NoFile /\ inflight = FALSE /\ werr = NoErr
  /\ errCh = NoValue
  /\ pulls = [i \in Range(Images) |-> 0] /\ restored = Empty
  /\ snap = Snapshot /\ logged = <<>>

UiNext == UiDeliver

UiSpec == UiInit /\ [][UiNext]_vars

(***************************************************************************)
(* What the specification says of migration replay, stated independently   *)
(* of the code's regular expression.                                       *)
(***************************************************************************)
\* A name of the form <14 digits>_init.sql whose timestamp is below the
\* threshold.
LegacyInitName(name) ==
  /\ Len(name) = 23
  /\ \A k \in 1..14 : name[k] \in Digits
  /\ SubSeq(name, 15, 23) = InitSqlSuffix
  /\ BelowThreshold(ParseUint(SubSeq(name, 1, 14)))

\* The migrations to replay from a directory: all of them in ascending
\* filename order, but for a legacy init migration in first place.
ExpectedReplay(files) ==
  LET sorted == ReadDir(files)
  IN IF sorted # <<>> /\ LegacyInitName(Head(sorted)) THEN Tail(sorted)
     ELSE sorted

\* The names of the migrations replayed into a database, in replay order.
MigrationsIn(db) ==
  LET ms == SelectSeq(db.log, LAMBDA it : it.k = "migration")
  IN [i \in 1..Len(ms) |-> ms[i].n]

(***************************************************************************)
(* C1                                                                      *)
(***************************************************************************)
\* C1: once a run of commit has returned (success, failure at any stage or
\* Ctrl-C), the database supabase_shadow does not exist.
ShadowGoneOnceCommitReturned ==
  (cmd = "commit" /\ mainPc = "returned") => ShadowDbName \notin DOMAIN dbs

(***************************************************************************)
(* C2                                                                      *)
(***************************************************************************)
\* C2: once start has returned 'Aborted', no container and no network of the
\* project exists.
AbortedStartLeavesNothing ==
  (cmd = "start" /\ mainPc = "returned" /\ result = "Aborted") =>
    containers = {} /\ ~net

(***************************************************************************)
(* C3                                                                      *)
(***************************************************************************)
\* The restore loop of the current run of start has gone through its listing.
RestoreLoopDone ==
  cmd = "start" /\ wpc = "restore_loop" /\ wtodo = <<>> /\ ~inflight

\* C3: when the restore loop ends, every branch directory that was on disk
\* has been tried (the loop went on after each failure); a branch whose dump
\* replayed without error has a database of its name holding the dump; a
\* branch whose restore failed has lost its directory, and the pointer names
\* `main` if it named that branch; with no call failed by the environment and
\* no Ctrl-C, every valid dump whose name is free was replayed.
RestoreAllIsolatesFailures ==
  RestoreLoopDone =>
    /\ DOMAIN restored = DOMAIN snap.env.dirs
    /\ \A b \in DOMAIN restored :
         /\ restored[b] = "ok" =>
              /\ b \in DOMAIN dirs
              /\ DbId \in containers =>
                   b \in DOMAIN dbs /\ dbs[b] = Db(b, <<Item("dump")>>)
         /\ restored[b] = "failed" =>
              /\ b \notin DOMAIN dirs
              /\ snap.env.ptr = b => ptr = "main"
         /\ (events = snap.events /\ snap.env.dirs[b] = "valid"
               /\ b \notin DOMAIN FreshCluster) => restored[b] = "ok"

\* Branches a (valid), b (corrupt, current) and c (valid): a and c restored,
\* b's directory removed, the pointer reset.
RestoredAroundCorruptBranch ==
  /\ RestoreLoopDone
  /\ snap.env.ptr = "b"
  /\ restored = Put(Put(Only("a", "ok"), "b", "failed"), "c", "ok")
  /\ {"a", "c"} \subseteq DOMAIN dbs
  /\ DOMAIN dirs = {"a", "c"}
  /\ ptr = "main"

(***************************************************************************)
(* C4                                                                      *)
(***************************************************************************)
\* C4: a run of start in which exactly one branch failed to restore, with no
\* call failed by the environment and no Ctrl-C, returns success.
CorruptBranchNeverAbortsStart ==
  (/\ cmd = "start" /\ mainPc = "returned"
   /\ result # "start is already running"
   /\ events = snap.events
   /\ snap.env.containers = {}
   /\ Cardinality({b \in DOMAIN restored : restored[b] = "failed"}) = 1)
  => result = "Started"

(***************************************************************************)
(* C5                                                                      *)
(***************************************************************************)
\* C5: when a replay loop has gone through the directory, the migrations
\* replayed are those of the directory in ascending filename order, each
\* once, without the first one if and only if it is named
\* <14 digits>_init.sql with a timestamp below 20211209000000.
ReplaySkipsOnlyLegacyInit ==
  /\ (cmd = "start" /\ wpc = "em_seed" /\ MainReachable) =>
       MigrationsIn(dbs["main"]) = ExpectedReplay(DOMAIN migs)
  /\ (cmd = "commit" /\ wpc = "diff" /\ ShadowReachable) =>
       MigrationsIn(dbs[ShadowDbName]) = ExpectedReplay(DOMAIN migs)

ExpectedMainLog ==
  <<Item("schema")>>
    \o (IF hasExt THEN <<Item("extensions")>> ELSE <<>>)
    \o [i \in 1..Len(ExpectedReplay(DOMAIN migs)) |->
          MigItem(ExpectedReplay(DOMAIN migs)[i])]
    \o (IF hasSeed THEN <<Item("seed")>> ELSE <<>>)

\* C7: a run of start without a branches directory, no call failing, returns
\* success with the pointer file naming `main`, the `main` directory on disk
\* and database `postgres` being the `main` database built from the baseline
\* schema, extensions, the non-legacy migrations in order and the seed.
FreshStartBuildsMain ==
  (/\ cmd = "start" /\ mainPc = "returned"
   /\ ~snap.env.branchesDir
   /\ snap.env.containers = {}
   /\ events = snap.events)
  => /\ result = "Started"
     /\ ptr = "main"
     /\ "main" \in DOMAIN dirs
     /\ "postgres" \in DOMAIN dbs
     /\ dbs["postgres"] = Db("main", ExpectedMainLog)

(***************************************************************************)
(* C8                                                                      *)
(***************************************************************************)
\* C8: after a successful commit the migrations directory holds every file
\* it held before, unchanged, and exactly one more, named after the current
\* second and the commit's name and holding the diff payload.
CommitAddsOneFile ==
  (cmd = "commit" /\ mainPc = "returned" /\ result = "Finished") =>
    /\ Cardinality(DOMAIN migs) = Cardinality(DOMAIN snap.env.migs) + 1
    /\ \A f \in DOMAIN snap.env.migs :
         f \in DOMAIN migs /\ migs[f] = snap.env.migs[f]
    /\ NewMigrationName(now, arg) \in DOMAIN migs \ DOMAIN snap.env.migs
    /\ migs[NewMigrationName(now, arg)] = wdiff

(***************************************************************************)
(* C9                                                                      *)
(***************************************************************************)
\* Run of start is about to return the worker's fatal error, no Ctrl-C.
ReturnsFatalError ==
  /\ cmd = "start" /\ mainPc = "post" /\ mainPc' = "returned"
  /\ ~ctxDone /\ errCh # NoErr

\* C9 as written: once a start whose worker ended with a fatal error, no
\* Ctrl-C, has returned, no container and no network of the project exists
\* and the error returned is the worker's.
FailedStartRemovesEverything ==
  (/\ cmd = "start" /\ mainPc = "returned" /\ ~ctxDone
   /\ result \notin {"Started", "start is already running"})
  => containers = {} /\ ~net /\ result = werr

\* C9 amended: returning the worker's fatal error, Run returns that error
\* whatever the cleanup did, creates nothing, and leaves no container and no
\* network unless a removal was failed by the runtime.
FailedStartCleansUpBestEffort ==
  [][ReturnsFatalError =>
       /\ result' = werr /\ werr # NoErr
       /\ containers' \subseteq containers
       /\ net' => net
       /\ events' = events => containers' = {} /\ ~net']_vars

\* A start that failed at a service container has returned its error with
\* the containers and the network removed.
FailedStartCleanedUp ==
  /\ cmd = "start" /\ mainPc = "returned" /\ ~ctxDone
  /\ result = "Error starting container"
  /\ snap.env.containers = {}
  /\ "main" \in DOMAIN dirs
  /\ containers = {} /\ ~net

(***************************************************************************)
(* C10                                                                     *)
(***************************************************************************)
\* C10: a command that returned at its sanity check (start with the db
\* container present, commit without it) left the environment as it found
\* it and started neither the UI loop nor the worker.
PreconditionFailureHasNoEffect ==
  (/\ mainPc = "returned"
   /\ result \in {"start is already running", "supabase start is not running"})
  => /\ Env = snap.env
     /\ events = snap.events
     /\ ui = "off" /\ wpc = "off" /\ ~inflight /\ errCh = NoValue

\* start typed while the environment is running.
StartRefusedWhileRunning ==
  /\ cmd = "start" /\ mainPc = "returned"
  /\ result = "start is already running"
  /\ containers = AllContainers /\ net

(***************************************************************************)
(* C11                                                                     *)
(***************************************************************************)
\* C11: stop typed while the db container does not exist returns nil after
\* printing "already stopped" and has removed no container, pruned no
\* network and left the branches directory and every other file alone.
StopWhenStoppedIsNoOp ==
  (cmd = "stop" /\ DbId \notin snap.env.containers)
  => /\ mainPc = "returned" /\ result = "already stopped"
     /\ Env = snap.env
     /\ events = snap.events

\* stop typed over what an interrupted start left behind: the network and
\* the branches directory exist, the db container does not.
StoppedOverLeftovers ==
  /\ cmd = "stop" /\ mainPc = "returned" /\ result = "already stopped"
  /\ net /\ branchesDir /\ DbId \notin containers

(***************************************************************************)
(* C12                                                                     *)
(***************************************************************************)
\* C12: start and db commit return "Aborted <operation>." exactly when the
\* user's Ctrl-C cancelled the context while the UI loop ran; an error the
\* worker left on errCh is returned only by a run that was not cancelled.
AbortedIffCancelled ==
  (cmd \in {"start", "commit"} /\ mainPc = "returned")
  => /\ (result = "Aborted") <=> ctxDone
     /\ ctxDone => events > snap.events

\* A cancelled start whose worker had already put a step error on errCh:
\* the error stays there and "Aborted" is what Run returns.
AbortedOverWorkerError ==
  /\ cmd = "start" /\ mainPc = "returned" /\ result = "Aborted"
  /\ errCh \notin {NoValue, NoErr, "context canceled"}

(***************************************************************************)
(* C13                                                                     *)
(***************************************************************************)
\* The errors run returns from inside the ensure-main closure only.
EnsureMainErrors == {"Error creating database", "Error starting database"}

\* What a failure inside ensure-main leaves: the main directory removed,
\* the worker at its end with no call issued, no promotion done and no
\* service container created (one that an earlier run left behind may
\* exist), and the error on its way to the caller.
EnsureMainFailureHandled ==
  /\ "main" \notin DOMAIN dirs
  /\ wpc \in {"quit", "exit"} /\ ~inflight
  /\ containers \subseteq {DbId} \cup snap.env.containers
  /\ "postgres" \in DOMAIN dbs => dbs["postgres"].origin = "postgres"
  /\ mainPc = "returned" => result = werr
  /\ mainPc # "returned" => errCh = werr

LastLines(s, n) == SubSeq(s, Len(s) - n + 1, Len(s))

\* C15: after any sequence of messages the window m.psqlOutputs holds at
\* most 5 lines and is the last min(5, k) of the k psql lines delivered
\* since the last clearing message, in delivery order; a clearing message
\* empties it.
LogWindowKeepsLastFive ==
  /\ Len(m.psqlOutputs) <= LogWindow
  /\ m.psqlOutputs =
       LastLines(logged, IF Len(logged) < LogWindow THEN Len(logged)
                         ELSE LogWindow)

\* Seven lines were delivered: the first two were evicted, oldest first.
LogWindowEvictedTwice ==
  /\ Len(logged) = LogWindow + 2
  /\ logged[1] # logged[2] /\ logged[LogWindow + 1] # logged[LogWindow + 2]
  /\ m.psqlOutputs = SubSeq(logged, 3, LogWindow + 2)

(***************************************************************************)
(* C16                                                                     *)
(***************************************************************************)
\* C16: no transition of the UI state machine calls the container runtime
\* or the database: the step with which Update's handler for a key ends
\* leaves the containers, the databases and the network as they were.
UiTaskMakesNoExternalCall ==
  [][(ui = "handling" /\ ui' # ui) => UNCHANGED <<containers, dbs, net>>]_vars

(***************************************************************************)
(* C17                                                                     *)
(***************************************************************************)
\* C17: once Update has taken Ctrl-C in a run of start, Run returns, with
\* no step of the worker needed: not even the end of the exec that polls
\* pg_isready.
CtrlCEndsStart == (cmd = "start" /\ ctxDone) ~> (mainPc = "returned")

\* start returned as aborted while the worker still waits for the exec
\* that polls pg_isready.
AbortedWhilePolling ==
  /\ cmd = "start" /\ mainPc = "returned" /\ result = "Aborted"
  /\ wpc = "globals" /\ inflight /\ errCh = NoValue

(***************************************************************************)
(* C18                                                                     *)
(***************************************************************************)
\* C18: when start returns success, the pointer file _current_branch names
\* the branch whose database was renamed to the live database postgres.
PointerNamesPromotedBranch ==
  (cmd = "start" /\ mainPc = "returned" /\ result = "Started")
  => /\ "postgres" \in DOMAIN dbs
     /\ dbs["postgres"].origin = ptr

(***************************************************************************)
(* C19                                                                     *)
(***************************************************************************)
\* C19: start removes a branch directory only when that branch's own dump
\* is missing or fails to replay: a branch whose dump was valid when start
\* was launched keeps its directory, and while every dump is valid the
\* pointer file is not rewritten, whatever is cancelled and whichever exec
\* the runtime fails.
OnlyBrokenBranchesDeleted ==
  cmd = "start"
  => LET before == snap.env.dirs
     IN /\ \A b \in DOMAIN before : before[b] = "valid" => b \in DOMAIN dirs
        /\ ((\A b \in DOMAIN before : before[b] = "valid")
            /\ snap.env.ptr # NoFile)
           => ptr = snap.env.ptr

(***************************************************************************)
(* C20                                                                     *)
(***************************************************************************)
\* C20: once the Ctrl-C handler of start has ended (cancelCtx, then the
\* removal of every container of the project), no container of the
\* project exists, in that state and in every later state of the run.
NoContainerAfterCtrlC ==
  (cmd = "start" /\ ctxDone /\ ui = "ended") => containers = {}

(***************************************************************************)
(* C21                                                                     *)
(***************************************************************************)
\* C21: a failed step ends start, the creation of the project network
\* included: once the worker is past NetworkCreate and the network does not
\* exist, the worker has returned an error and issues nothing more.
NetworkFailureAbortsStart ==
  (cmd = "start" /\ wpc \notin {"off", "net"} /\ ~net)
  => (wpc \in {"quit", "exit"} /\ ~inflight /\ werr # NoErr)

(***************************************************************************)
(* C22                                                                     *)
(***************************************************************************)
\* The order the specification gives: database, gateway, auth, mail,
\* realtime, REST, storage, diff tool, admin meta, admin UI.
StatedOrder ==
  <<"db", "kong", "gotrue", "inbucket", "realtime", "rest", "storage",
    "differ", "pgmeta", "studio">>

\* The first k containers of the stated order.
FirstStarted(k) == {StatedOrder[i] : i \in 1..k}

\* The containers that exist and did not when the command was launched.
CreatedByRun == containers \ snap.env.containers

\* C22: start creates its containers in the stated order. A step of a run
\* of start adds at most one container, the one after those the run has
\* created; as long as nothing was removed (no Ctrl-C, Run not returned)
\* the containers of the run are a prefix of the order; after the first
\* failure of a DockerRun the worker issues nothing; and start returns
\* success only with all ten created.
ServicesStartInOrder ==
  [][(cmd = "start" /\ cmd' = "start")
     => /\ \A c \in containers' \ containers :
             \E k \in 1..Len(StatedOrder) :
                /\ c = StatedOrder[k]
                /\ containers' \ containers = {c}
                /\ ~ctxDone => FirstStarted(k - 1) \subseteq containers
        /\ (~ctxDone' /\ mainPc' # "returned")
           => \E k \in 0..Len(StatedOrder) : CreatedByRun' = FirstStarted(k)
        /\ werr' \in {"Error starting container db", "Error starting container"}
           => (wpc' \in {"quit", "exit"} /\ ~inflight')
        /\ (mainPc' = "returned" /\ result' = "Started")
           => containers' = FirstStarted(Len(StatedOrder))]_vars

\* start returned success with the ten containers running.
AllTenStarted ==
  /\ cmd = "start" /\ mainPc = "returned" /\ result = "Started"
  /\ containers = FirstStarted(10) /\ snap.env.containers = {}

(***************************************************************************)
(* C23                                                                     *)
(***************************************************************************)
\* The positions of the worker inside ensure-main, and after the restore
\* loop.
EnsureMainPcs ==
  {"em_createdb", "em_schema", "em_ext", "em_readdir", "em_mig", "em_seed"}
PastRestorePcs == EnsureMainPcs \cup {"promote", "svc"}

\* The current branch has been renamed to postgres.
Promoted ==
  "postgres" \in DOMAIN dbs /\ dbs["postgres"].origin = currBranch

\* C23: within start, the db container is run only after every image has
\* been ensured; ensure-main begins only after the restore loop has tried
\* every branch directory; the promotion is issued only after ensure-main
\* ended without error, database main existing; and a service container is
\* run only after the promotion succeeded.
BranchStepsInOrder ==
  cmd = "start" =>
    /\ (wpc \in {"dbrun", "globals", "restore", "restore_loop"}
          \cup PastRestorePcs
        \/ DbId \in CreatedByRun)
       => Range(Images) \subseteq images
    /\ wpc \in PastRestorePcs => DOMAIN restored = DOMAIN snap.env.dirs
    /\ wpc \in {"promote", "svc"}
       => /\ "main" \in DOMAIN dirs /\ werr = NoErr
          /\ (wpc = "promote" /\ DbId \in containers) => "main" \in DOMAIN dbs
    /\ ((wpc = "svc" \/ CreatedByRun \cap Range(Services) # {})
        /\ DbId \in containers) => Promoted

\* A run that restored branches, built main, promoted the current branch
\* and started the gateway.
GatewayAfterBranchSteps ==
  /\ cmd = "start" /\ wpc = "svc" /\ KongId \in containers
  /\ DOMAIN restored # {} /\ "main" \notin DOMAIN snap.env.dirs
  /\ Promoted

(***************************************************************************)
(* C24                                                                     *)
(***************************************************************************)
\* The removal pass of stop is over: every container listed was removed,
\* but for those whose removal the runtime failed.
StopRemovalsDone ==
  /\ containers \subseteq snap.env.containers
  /\ Cardinality(containers) <= events - snap.events

\* The files of the project are those found at launch.
FilesUntouched ==
  /\ branchesDir = snap.env.branchesDir /\ ptr = snap.env.ptr
  /\ dirs = snap.env.dirs /\ migs = snap.env.migs

StopSuccessLeavesNothing ==
  (cmd = "stop" /\ mainPc = "returned"
   /\ result \in {"already stopped", "Stopped"})
  => (containers = {} /\ ~branchesDir)

Kept(Skips(_, _), list) ==
  LET idx == SelectSeq([i \in 1..Len(list) |-> i],
                       LAMBDA i : ~Skips(i - 1, list[i]))
  IN [j \in 1..Len(idx) |-> list[idx[j]]]

\* C27: the replay of commit into the shadow database and the replay of
\* start into main follow the same rule: over any migrations directory,
\* what commit has replayed into supabase_shadow is what the loop of start
\* keeps of that directory, and what start has replayed into main is what
\* the loop of commit keeps of it (same skipped file, same order); and at
\* the head of either loop both keep the same entries of the listing read.
ShadowReplayMatchesMain ==
  /\ (cmd = "commit" /\ wpc = "diff" /\ ShadowReachable) =>
       MigrationsIn(dbs[ShadowDbName]) = Kept(StartSkips, ReadDir(DOMAIN migs))
  /\ (cmd = "start" /\ wpc = "em_seed" /\ MainReachable) =>
       MigrationsIn(dbs["main"]) = Kept(CommitSkips, ReadDir(DOMAIN migs))
  /\ (cmd \in {"start", "commit"} /\ wpc \in {"em_mig", "sh_mig"}
      /\ widx = 0 /\ ~inflight) =>
       Kept(CommitSkips, wmigs) = Kept(StartSkips, wmigs)

\* commit went through a directory of three files whose first one both
\* loops skip, and replayed the other two into the shadow database.
ShadowReplaySkippedFirst ==
  /\ cmd = "commit" /\ wpc = "diff" /\ ShadowReachable
  /\ Len(ReadDir(DOMAIN migs)) = 3
  /\ StartSkips(0, ReadDir(DOMAIN migs)[1])
  /\ MigrationsIn(dbs[ShadowDbName]) = Tail(ReadDir(DOMAIN migs))

(***************************************************************************)
(* C28                                                                     *)
(***************************************************************************)
\* The errors run makes from the error stream of an SQL step.
CommitSqlErrors ==
  {"Error creating shadow database", "Error starting shadow database"}

\* C28: once an SQL step of commit (createdb of the shadow database, the
\* initial schema, extensions.sql, a migration) has failed, run is on its
\* way out: no exec is in flight or issued any more, no migration is added
\* to the shadow database, no diff is received and the migrations
\* directory keeps the files it had.
SqlFailureAbortsCommit ==
  [][(cmd' = "commit" /\ werr' \in CommitSqlErrors) =>
       /\ wpc' \in {"cleanup", "quit", "exit"} /\ ~inflight'
       /\ wdiff' = <<>> /\ migs' = migs /\ migs' = snap'.env.migs
       /\ ShadowDbName \in DOMAIN dbs' =>
            /\ ShadowDbName \in DOMAIN dbs
            /\ MigrationsIn(dbs'[ShadowDbName]) = MigrationsIn(dbs[ShadowDbName])]_vars

\* commit returned the error of a migration that was not the first one to
\* be replayed, with another file behind it in the directory.
CommitStoppedAtFailedMigration ==
  /\ cmd = "commit" /\ mainPc = "returned" /\ ~ctxDone
  /\ result = "Error starting shadow database"
  /\ werr = "Error starting shadow database"
  /\ widx = 1 /\ Len(wmigs) = 3
  /\ migs = snap.env.migs

(***************************************************************************)
(* C29                                                                     *)
(***************************************************************************)
\* The text run puts before the error stream of psql when it makes an
\* error of it. What follows the colon in the model's errors stands for
\* the error stream.
ErrorPrefix(err) ==
  IF err \in {"Error starting database", "Error starting database: globals",
              "Error starting database: rename",
              "Error starting database: promote"}
  THEN "Error starting database"
  ELSE err

\* The replay stage the worker is in, "other" outside of the replay stages.
ReplayStages == {"global bootstrap", "baseline bootstrap", "migration file"}
ReplayStage(pc) ==
  CASE pc = "globals" -> "global bootstrap"
    [] pc \in {"em_schema", "em_ext", "sh_schema", "sh_ext"} ->
         "baseline bootstrap"
    [] pc \in {"em_mig", "sh_mig"} -> "migration file"
    [] OTHER -> "other"

\* The prefixes the code gives to the errors of a replay stage, in start
\* and in commit.
PrefixesOf(stage) ==
  CASE stage = "global bootstrap" -> {"Error starting database"}
    [] stage = "baseline bootstrap" ->
         {"Error starting database", "Error starting shadow database"}
    [] stage = "migration file" ->
         {"Error starting database", "Error starting shadow database"}

\* C29: the error run makes when a replay stage fails (globals.sql, the
\* baseline schema and extensions of main or of the shadow database, a
\* migration file) bears a prefix that no other replay stage gives to its
\* errors.
ReplayErrorNamesItsStage ==
  [][(/\ werr = NoErr /\ werr' \notin {NoErr, "context canceled"}
      /\ ReplayStage(wpc) \in ReplayStages)
     => \A s \in ReplayStages \ {ReplayStage(wpc)} :
          ErrorPrefix(werr') \notin PrefixesOf(s)]_vars

(***************************************************************************)
(* C30                                                                     *)
(***************************************************************************)
\* C30: the handling of a failed restore of branch b leaves the pointer
\* file as it is unless the pointer file named b.
RestoreFailureKeepsOtherPointer ==
  [][cmd = "start" =>
       \A b \in DOMAIN restored' :
         (/\ restored'[b] = "failed"
          /\ b \in DOMAIN restored => restored[b] # "failed"
          /\ ptr # b)
         => ptr' = ptr]_vars

(***************************************************************************)
(* C31                                                                     *)
(***************************************************************************)
\* C31: once Ctrl-C has cancelled the context of a commit, the worker
\* writes no migration file, so a commit that returns "Aborted" has left
\* the migrations directory with the files it had at launch.
NoWriteAfterCancel ==
  [][(cmd = "commit" /\ ctxDone) =>
       /\ migs' = migs
       /\ (mainPc' = "returned" /\ result' = "Aborted")
            => migs' = snap.env.migs]_vars

(***************************************************************************)
(* C32                                                                     *)
(***************************************************************************)
\* The commit was launched over a shadow database that an earlier run left.
FoundLeftoverShadow == ShadowDbName \in DOMAIN snap.env.dbs

\* C32: a commit launched over a leftover supabase_shadow and not
\* cancelled fails at createdb and nowhere else, and has dropped the
\* leftover when run has returned; a commit launched without one, in a run
\* where nothing else fails and nothing is cancelled, does not fail at
\* createdb.
LeftoverShadowFailsOneCommit ==
  /\ (cmd = "commit" /\ FoundLeftoverShadow /\ ~ctxDone
      /\ wpc \notin {"off", "sh_create"})
     => /\ werr = "Error creating shadow database"
        /\ wpc \in {"cleanup", "quit", "exit"}
        /\ wpc # "cleanup" => ShadowDbName \notin DOMAIN dbs
        /\ mainPc = "returned" => result = "Error creating shadow database"
  /\ (cmd = "commit" /\ ~FoundLeftoverShadow /\ events = snap.events)
     => werr # "Error creating shadow database"

\* A commit found the shadow database of an earlier run, returned the
\* error of createdb and left no shadow database.
CommitFailedOverLeftover ==
  /\ cmd = "commit" /\ mainPc = "returned" /\ FoundLeftoverShadow
  /\ result = "Error creating shadow database"
  /\ events = snap.events
  /\ ShadowDbName \notin DOMAIN dbs

(***************************************************************************)
(* C33                                                                     *)
(***************************************************************************)
\* The databases but for the shadow database.
LastingDbs(all) == [n \in DOMAIN all \ {ShadowDbName} |-> all[n]]

\* C33: no step of a commit (worker, key handler, deferred cleanup, Run),
\* cancelled or not, creates or removes a container or the network, pulls
\* an image, changes a database other than supabase_shadow, or changes the
\* branches directory, the pointer file or a branch directory.
CommitTouchesShadowAndMigrationsOnly ==
  [][(cmd = "commit" /\ cmd' = "commit") =>
       /\ UNCHANGED <<net, containers, images, branchesDir, ptr, dirs>>
       /\ LastingDbs(dbs') = LastingDbs(dbs)]_vars

\* A commit interrupted by Ctrl-C after it had filled the shadow database
\* returned with everything but the shadow database as it was at launch.
CancelledCommitKeptEnvironment ==
  /\ cmd = "commit" /\ mainPc = "returned" /\ result = "Aborted"
  /\ wpc \in {"sh_mig", "diff", "write", "cleanup", "quit", "exit"}
  /\ containers = snap.env.containers /\ net = snap.env.net
  /\ LastingDbs(dbs) = LastingDbs(snap.env.dbs)
  /\ ptr = snap.env.ptr /\ dirs = snap.env.dirs

(***************************************************************************)
(* C34                                                                     *)
(***************************************************************************)
\* The scheduling of a run to its end: on top of the key handler and the
\* return after a cancellation, the goroutine sends Quit once run has
\* returned and Run receives from errCh once p.Start() has returned.
ReturnFairSpec ==
  /\ FairSpec
  /\ WF_vars(WorkerQuit)
  /\ WF_vars(StartReturnResult) /\ WF_vars(CommitReturnResult)

\* C34: when the UI loop has ended and the context is not cancelled, the
\* error of run is on errCh, so the receive of Run does not block; and
\* once run has returned, the command returns.
ResultAvailableAndReturned ==
  /\ []((cmd \in {"start", "commit"} /\ mainPc = "post" /\ ~ctxDone)
        => errCh # NoValue)
  /\ (cmd \in {"start", "commit"} /\ wpc \in {"quit", "exit"})
       ~> (mainPc = "returned")

\* The UI loop was ended by the Quit of the goroutine, and Run received
\* an error of run from errCh and returned it.
ReceivedWorkerError ==
  /\ cmd \in {"start", "commit"} /\ mainPc = "returned" /\ ~ctxDone
  /\ wpc = "exit" /\ werr \notin {NoErr, NoValue} /\ result = werr

(***************************************************************************)
(* C35                                                                     *)
(***************************************************************************)
\* C35: a branch that start has restored as a database, and the branch
\* whose database start has renamed to the live database, is main or has a
\* name that is not reserved.
NoReservedBranchRestored ==
  cmd = "start" =>
    /\ \A b \in DOMAIN restored :
         restored[b] = "ok" => (b = "main" \/ ~IsBranchNameReserved(b))
    /\ ("postgres" \in DOMAIN dbs /\ dbs["postgres"].origin # "postgres")
         => \/ dbs["postgres"].origin = "main"
            \/ ~IsBranchNameReserved(dbs["postgres"].origin)

(***************************************************************************)
(* C36                                                                     *)
(***************************************************************************)
\* C36: when the variable is not empty LoadAccessToken returns it if it
\* has the format and an error otherwise, whatever the file holds; and a
\* token returned without error, from the variable or from the file, has
\* the format.
TokenFromVariableFirstAndValidated ==
  (cmd = "secrets set" /\ mainPc = "returned") =>
    /\ arg.env # <<>> =>
         result = IF MatchToken(arg.env) THEN Returned(arg.env, NoErr)
                  ELSE Returned(<<>>, "Invalid access token format")
    /\ result.err = NoErr => MatchToken(result.token)

(***************************************************************************)
(* C37                                                                     *)
(***************************************************************************)
\* The fields in which two models differ.
Changed(a, b) == {f \in DOMAIN a : a[f] # b[f]}

\* The fields that belong to a message.
OwnFields(msg) ==
  CASE msg.type = "status" -> {"status"}
    [] msg.type = "resize" -> {"width"}
    [] msg.type = "progress" -> {"progress"}
    [] msg.type \in {"psql", "psqlnil"} -> {"psqlOutputs"}
    [] msg.type = "tick" -> {"spinner"}
    [] msg.type = "frame" -> {"progress"}
    [] OTHER -> {}

\* C37: whatever model the UI loop has reached, Update changes no field
\* but the one of its message: a status message sets the status text, a
\* resize the width, a nil progress clears the progress indicator, a line
\* of psql output or its clearing touches the log window only, and a key
\* other than Ctrl-C or a message Update does not know changes nothing; so
\* the status text is the one of the last status message delivered.
UpdateChangesOwnFieldOnly ==
  \A msg \in Messages \cup {KeyMsg("q"), QuitMsg} :
    LET n == Update(m, msg)
    IN /\ Changed(m, n) \subseteq OwnFields(msg)
       /\ msg.type = "status" => n.status = msg.text
       /\ msg.type # "status" => n.status = m.status
       /\ msg.type = "resize" => n.width = msg.num
       /\ msg = ProgressMsg(NoProgress) => n.progress = NoProgress
       /\ msg.type \in {"key", "quit"} => n = m

\* The UI loop has taken a status message, then a second one, with
\* messages of every other kind delivered before.
SecondStatusShown ==
  /\ cmd = "start" /\ mainPc = "ui"
  /\ m.status = "Starting database..." /\ m.width = 80 /\ m.progress = 100
  /\ Len(m.psqlOutputs) = 2 /\ m.spinner = 1

====
